---- MODULE Spec2Model ----
(***************************************************************************)
(* Model of the audio processor of the D&D DM assistant bot                *)
(* (internal/audio/processor.go): the ingestion loop, the background       *)
(* silence detector and StartProcessing/StopProcessing, which share the    *)
(* per-source maps of OGG writers, OGG buffers and last-packet times.      *)
(*                                                                         *)
(* The ingestion loop and the silence detector are goroutines that take no *)
(* lock; only StartProcessing, StopProcessing and IsProcessing take        *)
(* p.mutex.  Every access of a goroutine to the shared maps and buffers is *)
(* therefore a step of its own that interleaves freely with the others.    *)
(*                                                                         *)
(* Time is counted in seconds.  The clock is the wall clock: any time may   *)
(* pass between two steps of any goroutine, and every time.Now() returns   *)
(* a value that is not before the value the last time.Now() returned.      *)
(***************************************************************************)
EXTENDS Integers, Sequences, FiniteSets, TLC

\* ---------------------------------------------------------------- bounds
NumSources == 2          \* source tags (SSRCs) 1..NumSources
MaxPackets == 2          \* packets delivered on OpusRecv in one run
MaxTime    == 3          \* the clock stops advancing here
ClockStep  == 3          \* seconds between two values of the clock that are explored
MaxDebugFiles == 1       \* debug files the directory holds in one run
MaxLen     == 3          \* payload length explored for the packet classifier
MaxRuns    == 3          \* successful calls of StartProcessing in the model of the loops
MaxRunPackets == 3       \* packets delivered to the loops in the model of the loops
maxMessages == 4         \* the maxMessages a ConversationManager is constructed with
MaxOps     == 6          \* operations on the ConversationManager
MaxShutPackets == 1      \* packets received in a run that ends with Bot.Stop
MaxEvents  == 4          \* voice-state updates delivered to the bot
MaxWait    == 2          \* periods of 10 s a pending transcription is watched

\* ------------------------------------------------------- program constants
discordSilencePacketSize == 3
discordSilenceMarker1    == 248
discordSilenceMarker2    == 255
discordSilenceMarker3    == 254
silenceThreshold         == 2      \* 2 * time.Second, in seconds

Sources == 1..NumSources
Objs    == 1..MaxPackets           \* a session is created by a packet
NoObj   == 0                       \* key absent from a map
NoTime  == -1                      \* key absent from lastPacketTime

SilencePayload == <<discordSilenceMarker1, discordSilenceMarker2, discordSilenceMarker3>>
VoicePayload   == <<discordSilenceMarker1, discordSilenceMarker2, 0>>

\* payloads delivered on the stream in the concurrent model
Payloads == { <<>>, SilencePayload, VoicePayload }

\* bytes and payloads explored for the classifier alone
Bytes == {0, discordSilenceMarker1, discordSilenceMarker3, discordSilenceMarker2}
RECURSIVE SeqsUpTo(_, _)
SeqsUpTo(S, n) ==
  IF n = 0 THEN { <<>> }
  ELSE LET shorter == SeqsUpTo(S, n - 1)
       IN  shorter \cup { Append(q, b) : q \in { r \in shorter : Len(r) = n - 1 }, b \in S }

\* a *discordgo.Packet; isNil models the nil pointer
Packet(n, s, o) == [seq |-> n, ssrc |-> s, opus |-> o, isNil |-> FALSE]
NilPacket(n)    == [seq |-> n, ssrc |-> 0, opus |-> <<>>, isNil |-> TRUE]
NoPacket        == NilPacket(0)

\* the header pages oggwriter.NewWith writes into a fresh buffer
HeaderPage(s) == [seq |-> 0, ssrc |-> s, opus |-> <<>>]
\* the page WriteRTP appends for one packet
DataPage(p)   == [seq |-> p.seq, ssrc |-> p.ssrc, opus |-> p.opus]

\* ------------------------------------------------------------ classifier
\* isSilencePacket with the second and third marker compared in the wrong places
isSilencePacketSwapped(p) ==
  /\ Len(p.opus) = discordSilencePacketSize
  /\ p.opus[1] = discordSilenceMarker1
  /\ p.opus[2] = discordSilenceMarker3
  /\ p.opus[3] = discordSilenceMarker2

\* isSilencePacket without the comparison of the third byte
isSilencePacketPrefix(p) ==
  /\ Len(p.opus) = discordSilencePacketSize
  /\ p.opus[1] = discordSilenceMarker1
  /\ p.opus[2] = discordSilenceMarker2

\* isSilencePacket with the length compared to the wrong size
isSilencePacketWrongSize(p) ==
  /\ Len(p.opus) = discordSilencePacketSize + 1
  /\ p.opus[1] = discordSilenceMarker1
  /\ p.opus[2] = discordSilenceMarker2
  /\ p.opus[3] = discordSilenceMarker3

\* isSilencePacket(packet)
isSilencePacket(p) ==
  /\ Len(p.opus) = discordSilencePacketSize
  /\ p.opus[1] = discordSilenceMarker1
  /\ p.opus[2] = discordSilenceMarker2
  /\ p.opus[3] = discordSilenceMarker3

\* processAudioPacket without the test for the silence marker
ClassifyNoSilence(p) ==
  IF p.isNil \/ Len(p.opus) = 0 THEN "Empty" ELSE "Voice"

\* what processAudioPackets/processAudioPacket do with a packet before any
\* session state is touched
Classify(p) ==
  IF p.isNil \/ Len(p.opus) = 0 THEN "Empty"
  ELSE IF isSilencePacket(p) THEN "Silence"
  ELSE "Voice"

VARIABLES
  speechService,     \* TRUE iff p.speechService # nil
  isProcessing, voiceConnection, mutex,
  oggFiles, oggBuffers, lastPacketTime,
  bufData, wrClosed, nextObj,
  packetsReceived, silenceDetections,
  now, fed,
  started, stopCalls, stopPc, stopKeys, stopSeen, stopSsrc, stopBuf,
  closeKeys, closeSeen,
  ingPc, ingPkt, ingFile,
  detPc, detNow, detKeys, detFrozen, detOld, detSsrc, detBuf,
  calls, lastOut, appended, skipped, debugFiles,
  clsIn, clsOut,
  runs, ingLoops, detLoops, runPackets,
  messages, transcriptionBuf, disk, cmLoaded, cmOps, lastOp, pendingAge,
  dmChannel, botVoice, vsu, botAction, botEvents,
  sndIn, sndOut,     \* one call of sendBufferToGoogle: its inputs, what it did
  seqOrder,   \* seqOrder[n] is packet.Sequence of the n-th packet delivered
  trmIn, trmOut,   \* one call of trimMessages: cm.messages before and after
  stIn, stOut,   \* one call of StartProcessing: the processor and vc, the result
  speechClosed,   \* TRUE once Bot.Stop has called b.speechService.Close()
  cmMutex, askQ,   \* cm.mutex (free, or held by AskQuestion), the question AskQuestion has sent to Claude
  splIn, splOut,   \* the arguments of one call of splitMessage, and what it returned
  resultChan, lisPc, closeCalled, closes, sentClosed   \* a StreamingSession: s.ResultChan, where listen is, Close called, close() executions on the channel, a send on the closed channel

procVars == <<speechService, isProcessing, voiceConnection, mutex,
              oggFiles, oggBuffers, lastPacketTime, bufData, wrClosed, nextObj,
              packetsReceived, silenceDetections, now, fed,
              started, stopCalls, stopPc, stopKeys, stopSeen, stopSsrc, stopBuf,
              closeKeys, closeSeen,
              ingPc, ingPkt, ingFile,
              detPc, detNow, detKeys, detFrozen, detOld, detSsrc, detBuf,
              calls, lastOut, appended, skipped, debugFiles>>
clsVars == <<clsIn, clsOut>>
runVars == <<runs, ingLoops, detLoops, runPackets>>
convVars == <<messages, transcriptionBuf, disk, cmLoaded, cmOps, lastOp, pendingAge>>
botVars == <<dmChannel, botVoice, vsu, botAction, botEvents>>
sndVars == <<sndIn, sndOut>>
ordVars == <<seqOrder>>
trimVars == <<trmIn, trmOut>>
startVars == <<stIn, stOut>>
shutVars == <<speechClosed>>
askVars == <<cmMutex, askQ>>
splitVars == <<splIn, splOut>>
streamVars == <<resultChan, lisPc, closeCalled, closes, sentClosed>>
auxVars == <<ordVars, trimVars, startVars, shutVars, askVars, splitVars, streamVars>>
\* the variables of every part that is observed on its own, except the named one
auxExceptOrder == <<trimVars, startVars, shutVars, askVars, splitVars, streamVars>>
auxExceptTrim == <<ordVars, startVars, shutVars, askVars, splitVars, streamVars>>
auxExceptStart == <<ordVars, trimVars, shutVars, askVars, splitVars, streamVars>>
auxExceptShut == <<ordVars, trimVars, startVars, askVars, splitVars, streamVars>>
auxExceptAsk == <<ordVars, trimVars, startVars, shutVars, splitVars, streamVars>>
auxExceptSplit == <<ordVars, trimVars, startVars, shutVars, askVars, streamVars>>
auxExceptStream == <<ordVars, trimVars, startVars, shutVars, askVars, splitVars>>
\* the variables of the parts of the program other than the audio processor
otherVars == <<clsVars, runVars, convVars, botVars, sndVars, auxVars>>
vars == <<procVars, otherVars>>

EmptyMap  == [s \in Sources |-> NoObj]
EmptyTime == [s \in Sources |-> NoTime]
Keys(m)     == { s \in Sources : m[s] # NoObj }
TimeKeys(m) == { s \in Sources : m[s] # NoTime }

\* what time.Now() can return: now is the value of the latest reading, and the
\* clock never goes back.  Only differences to a last-packet time are ever
\* used, so the clock starts with the first session; the values explored are
\* ClockStep seconds apart.
TimeNow ==
  IF TimeKeys(lastPacketTime) = {} THEN { now }
  ELSE { t \in now..MaxTime : (t - now) % ClockStep = 0 }

\* the parts of the program outside the audio processor before they are used
Runs == 1..MaxRuns
IdleRuns ==
  /\ runs = 0
  /\ ingLoops = [r \in Runs |-> "none"]
  /\ detLoops = [r \in Runs |-> "none"]
  /\ runPackets = 0

\* the conversation file: missing, not parseable as JSON, or a JSON document
NoFile      == [kind |-> "nofile", messages |-> <<>>]
CorruptFile == [kind |-> "corrupt", messages |-> <<>>]

IdleConv ==
  /\ messages = <<>>
  /\ transcriptionBuf = <<>>
  /\ disk = NoFile
  /\ cmLoaded = FALSE
  /\ cmOps = 0
  /\ lastOp = "none"
  /\ pendingAge = 0

NoUpdate == [user |-> "none", before |-> "nil", channel |-> ""]
\* the goroutines of the bot that handle an event, and one that handles none
Handlers == 1..MaxEvents
NoHandler == [kind |-> "none", channel |-> "", pc |-> "none"]
IdleBot ==
  /\ dmChannel = ""
  /\ botVoice = ""
  /\ vsu = NoUpdate
  /\ botAction = [h \in Handlers |-> NoHandler]
  /\ botEvents = 0

IdleClassify ==
  /\ clsIn = NoPacket
  /\ clsOut = "none"

\* no call of sendBufferToGoogle is under observation
NoSend == [svc |-> FALSE, ssrc |-> 0, exists |-> FALSE, buffer |-> <<>>, out |-> "none"]
NotSent == [pc |-> "test", done |-> FALSE, called |-> FALSE, sent |-> <<>>, printed |-> {},
            files |-> {}, bufferAfter |-> <<>>, timeSet |-> FALSE, touched |-> FALSE]
IdleSend ==
  /\ sndIn = NoSend
  /\ sndOut = NotSent

\* the transport delivers the packets in the order of their sequence numbers
InOrder == [n \in 1..MaxPackets |-> n]
IdleOrder == seqOrder = InOrder

\* no call of trimMessages is under observation
NotTrimmed == [done |-> FALSE, messages |-> <<>>]
IdleTrim ==
  /\ trmIn = <<>>
  /\ trmOut = NotTrimmed

\* the fields of a Processor that StartProcessing reads or writes; loops is the
\* number of times the two goroutines were started; conn is 0 for a nil
\* p.voiceConnection
ProcessorFields(active, conn, files, buffers, times, received, silences, loops) ==
  [ isProcessing |-> active, voiceConnection |-> conn,
    oggFiles |-> files, oggBuffers |-> buffers, lastPacketTime |-> times,
    packetsReceived |-> received, silenceDetections |-> silences, loops |-> loops ]

\* no call of StartProcessing is under observation
NoProcessor == ProcessorFields(FALSE, 0, {}, {}, {}, 0, 0, 0)
NotStarted  == [done |-> FALSE, err |-> FALSE, p |-> NoProcessor]
IdleStart ==
  /\ stIn = [p |-> NoProcessor, vc |-> 0]
  /\ stOut = NotStarted

\* Bot.Stop has not closed the speech service
IdleShut == speechClosed = FALSE

\* no method of the ConversationManager is inside its critical section
IdleAsk ==
  /\ cmMutex = "free"
  /\ askQ = 0

\* splitMessage has not been called
NoSplit == [message |-> <<>>, maxLength |-> 1]
NotSplit == [done |-> FALSE, chunks |-> <<>>]
IdleSplit ==
  /\ splIn = NoSplit
  /\ splOut = NotSplit

\* StartStreaming has not been called: no channel, no listen goroutine
NoChan == [state |-> "nil", len |-> 0]
IdleStream ==
  /\ resultChan = NoChan
  /\ lisPc = "none"
  /\ closeCalled = FALSE
  /\ closes = 0
  /\ sentClosed = FALSE

IdleAux ==
  /\ IdleOrder
  /\ IdleTrim
  /\ IdleStart
  /\ IdleShut
  /\ IdleAsk
  /\ IdleSplit
  /\ IdleStream

\* every part that is observed on its own is idle, except the named one
IdleExceptOrder ==
  /\ IdleTrim
  /\ IdleStart
  /\ IdleShut
  /\ IdleAsk
  /\ IdleSplit
  /\ IdleStream

IdleExceptTrim ==
  /\ IdleOrder
  /\ IdleStart
  /\ IdleShut
  /\ IdleAsk
  /\ IdleSplit
  /\ IdleStream

IdleExceptStart ==
  /\ IdleOrder
  /\ IdleTrim
  /\ IdleShut
  /\ IdleAsk
  /\ IdleSplit
  /\ IdleStream

IdleExceptShut ==
  /\ IdleOrder
  /\ IdleTrim
  /\ IdleStart
  /\ IdleAsk
  /\ IdleSplit
  /\ IdleStream

IdleExceptAsk ==
  /\ IdleOrder
  /\ IdleTrim
  /\ IdleStart
  /\ IdleShut
  /\ IdleSplit
  /\ IdleStream

IdleExceptSplit ==
  /\ IdleOrder
  /\ IdleTrim
  /\ IdleStart
  /\ IdleShut
  /\ IdleAsk
  /\ IdleStream

IdleExceptStream ==
  /\ IdleOrder
  /\ IdleTrim
  /\ IdleStart
  /\ IdleShut
  /\ IdleAsk
  /\ IdleSplit

\* New(debug, speechService)
InitProc ==
  /\ speechService \in BOOLEAN
  /\ isProcessing = FALSE
  /\ voiceConnection = FALSE
  /\ mutex = "free"
  /\ oggFiles = EmptyMap
  /\ oggBuffers = EmptyMap
  /\ lastPacketTime = EmptyTime
  /\ bufData = [o \in Objs |-> <<>>]
  /\ wrClosed = [o \in Objs |-> FALSE]
  /\ nextObj = 1
  /\ packetsReceived = 0
  /\ silenceDetections = 0
  /\ now = 0
  /\ fed = 0
  /\ started = FALSE
  /\ stopCalls = 0
  /\ stopPc = "idle"
  /\ stopKeys = {}
  /\ stopSeen = {}
  /\ closeKeys = {}
  /\ closeSeen = {}
  /\ stopSsrc = 0
  /\ stopBuf = NoObj
  /\ ingPc = "off"
  /\ ingPkt = NoPacket
  /\ ingFile = NoObj
  /\ detPc = "off"
  /\ detNow = 0
  /\ detKeys = {}
  /\ detFrozen = FALSE
  /\ detOld = EmptyTime
  /\ detSsrc = 0
  /\ detBuf = NoObj
  /\ calls = <<>>
  /\ lastOut = "none"
  /\ appended = {}
  /\ skipped = {}
  /\ debugFiles = {}

\* ------------------------------------------------------- StartProcessing
\* One run is modelled: StartProcessing succeeds once.
StartProcessing ==
  /\ mutex = "free"
  /\ ~started
  /\ ~isProcessing
  /\ started' = TRUE
  /\ voiceConnection' = TRUE
  /\ isProcessing' = TRUE
  /\ packetsReceived' = 0
  /\ silenceDetections' = 0
  /\ oggFiles' = EmptyMap
  /\ oggBuffers' = EmptyMap
  /\ lastPacketTime' = EmptyTime
  /\ ingPc' = "init"          \* go p.processAudioPackets()
  /\ detPc' = "wait"          \* go p.silenceDetector()
  /\ UNCHANGED <<speechService, mutex, bufData, wrClosed, nextObj, now, fed,
                 stopCalls, stopPc, stopKeys, stopSeen, stopSsrc, stopBuf,
                 closeKeys, closeSeen,
                 ingPkt, ingFile, detNow, detKeys, detFrozen, detOld, detSsrc, detBuf,
                 calls, lastOut, appended, skipped, debugFiles, otherVars>>

\* ------------------------------------------------------ the ingestion loop
ingVarsOnly == <<ingPc, ingPkt, ingFile>>
detVarsOnly == <<detPc, detNow, detKeys, detFrozen, detOld, detSsrc, detBuf>>
closeVars == <<closeKeys, closeSeen>>
stopVarsOnly == <<started, stopCalls, stopPc, stopKeys, stopSeen, stopSsrc, stopBuf, closeVars>>
flagVars == <<speechService, isProcessing, voiceConnection, mutex>>
mapVars == <<oggFiles, oggBuffers, lastPacketTime>>
objVars == <<bufData, wrClosed, nextObj>>
cntVars == <<packetsReceived, silenceDetections, now, fed>>
obsVars == <<calls, lastOut, appended, skipped, debugFiles>>

\* the process has died: processAudioPackets has dereferenced p.voiceConnection
\* after StopProcessing set it to nil, a panic no one recovers
Crashed == ingPc = "panic"

\* processAudioPackets: the test of p.voiceConnection for nil
IngestInit ==
  /\ ~Crashed
  /\ ingPc = "init"
  /\ ingPc' = IF voiceConnection THEN "range" ELSE "done"
  /\ UNCHANGED <<flagVars, mapVars, objVars, cntVars, obsVars,
                 ingPkt, ingFile, stopVarsOnly, detVarsOnly, otherVars>>

\* processAudioPackets: p.voiceConnection.OpusRecv is evaluated for the range
\* (in debug mode p.voiceConnection.Ready two lines earlier)
IngestRange ==
  /\ ~Crashed
  /\ ingPc = "range"
  /\ ingPc' = IF voiceConnection THEN "recv" ELSE "panic"
  /\ UNCHANGED <<flagVars, mapVars, objVars, cntVars, obsVars,
                 ingPkt, ingFile, stopVarsOnly, detVarsOnly, otherVars>>

\* one session shared by all sources
SessionKeyShared(p) == 1

\* the key of a packet's session in the three maps: packet.SSRC
SessionKey(p) == p.ssrc

\* the packets the transport can deliver next
NextPackets(n) ==
  { NilPacket(n) } \cup { Packet(n, s, o) : s \in Sources, o \in Payloads }

\* one iteration of "for packet := range OpusRecv", up to the call of
\* processAudioPacket
IngestRecv ==
  /\ ~Crashed
  /\ ingPc = "recv"
  /\ fed < MaxPackets
  /\ fed' = fed + 1
  /\ \E pkt \in NextPackets(fed + 1) :
       IF ~isProcessing
       THEN ingPc' = "done" /\ ingPkt' = NoPacket
       ELSE IF pkt.isNil
       THEN ingPc' = "recv" /\ ingPkt' = NoPacket
       ELSE ingPc' = "proc" /\ ingPkt' = pkt
  /\ UNCHANGED <<flagVars, mapVars, objVars, obsVars,
                 packetsReceived, silenceDetections, now,
                 ingFile, stopVarsOnly, detVarsOnly, otherVars>>

\* oggwriter.NewWith returns a writer, or an error
WriterOutcomes == { "ok", "err" }

\* processAudioPacket goes on to record the session whatever NewWith returned
AfterNewWithIgnored(w) == "files"

\* where processAudioPacket goes after oggwriter.NewWith: to the assignment
\* of p.oggFiles[ssrc], or, after an error, back to the loop
AfterNewWith(w) == IF w = "ok" THEN "files" ELSE "recv"

\* processAudioPacket up to the lookup in p.oggFiles and, for a source
\* without an entry, the creation of the buffer and the writer
IngestProc ==
  /\ ~Crashed
  /\ ingPc = "proc"
  /\ LET s == SessionKey(ingPkt)
         c == Classify(ingPkt)
     IN
     \/ /\ c = "Empty"
        /\ ingPc' = "recv" /\ ingPkt' = NoPacket
        /\ UNCHANGED <<packetsReceived, silenceDetections, bufData, nextObj, ingFile>>
     \/ /\ c = "Silence"
        /\ packetsReceived' = packetsReceived + 1
        /\ silenceDetections' = silenceDetections + 1   \* handleSilenceDetection
        /\ ingPc' = "recv" /\ ingPkt' = NoPacket
        /\ UNCHANGED <<bufData, nextObj, ingFile>>
     \/ /\ c = "Voice"
        /\ packetsReceived' = packetsReceived + 1
        /\ IF oggFiles[s] = NoObj
           THEN \E w \in WriterOutcomes :
                  /\ ingPc' = AfterNewWith(w)
                  /\ ingPkt' = IF ingPc' = "recv" THEN NoPacket ELSE ingPkt
                  /\ IF w = "ok"
                     THEN /\ bufData' = [bufData EXCEPT ![nextObj] = <<HeaderPage(s)>>]
                          /\ ingFile' = nextObj
                          /\ nextObj' = nextObj + 1
                     ELSE UNCHANGED <<bufData, ingFile, nextObj>>
           ELSE /\ ingFile' = oggFiles[s]
                /\ ingPc' = "time"
                /\ UNCHANGED <<bufData, nextObj, ingPkt>>
        /\ UNCHANGED silenceDetections
  /\ UNCHANGED <<flagVars, mapVars, wrClosed, now, fed, obsVars,
                 stopVarsOnly, detVarsOnly, otherVars>>

\* processAudioPacket: p.oggFiles[packet.SSRC] = oggFile
IngestFiles ==
  /\ ~Crashed
  /\ ingPc = "files"
  /\ oggFiles' = [oggFiles EXCEPT ![SessionKey(ingPkt)] = ingFile]
  /\ ingPc' = "buffers"
  /\ UNCHANGED <<flagVars, oggBuffers, lastPacketTime, objVars, cntVars, obsVars,
                 ingPkt, ingFile, stopVarsOnly, detVarsOnly, otherVars>>

\* processAudioPacket: p.oggBuffers[packet.SSRC] = oggBuffer
IngestBuffers ==
  /\ ~Crashed
  /\ ingPc = "buffers"
  /\ oggBuffers' = [oggBuffers EXCEPT ![SessionKey(ingPkt)] = ingFile]
  /\ ingPc' = "time"
  /\ UNCHANGED <<flagVars, oggFiles, lastPacketTime, objVars, cntVars, obsVars,
                 ingPkt, ingFile, stopVarsOnly, detVarsOnly, otherVars>>

\* processAudioPacket: p.lastPacketTime[packet.SSRC] = time.Now()
IngestTime ==
  /\ ~Crashed
  /\ ingPc = "time"
  /\ \E t \in TimeNow :
       /\ now' = t
       /\ lastPacketTime' = [lastPacketTime EXCEPT ![SessionKey(ingPkt)] = t]
  /\ ingPc' = "write"
  /\ UNCHANGED <<flagVars, oggFiles, oggBuffers, objVars,
                 packetsReceived, silenceDetections, fed, obsVars,
                 ingPkt, ingFile, stopVarsOnly, detVarsOnly, otherVars>>

\* rtp.Header.SequenceNumber of a page: packet.Sequence; the header pages come
\* before every packet
PageSequence(pg) == IF pg.seq = 0 THEN 0 ELSE seqOrder[pg.seq]

\* a writer that keeps the pages of a buffer sorted by sequence number
WritePageSorted(buf, p) ==
  LET before == SelectSeq(buf, LAMBDA pg : PageSequence(pg) < seqOrder[p.seq])
      after  == SelectSeq(buf, LAMBDA pg : PageSequence(pg) > seqOrder[p.seq])
  IN  before \o <<DataPage(p)>> \o after

\* WriteRTP on an open writer: the page of the packet is written after the
\* pages the buffer holds, whatever its sequence number
WritePage(buf, p) == Append(buf, DataPage(p))

\* oggFile.WriteRTP(rtpPacket): a closed writer has no stream and reports an error
IngestWrite ==
  /\ ~Crashed
  /\ ingPc = "write"
  /\ IF wrClosed[ingFile]
     THEN UNCHANGED <<bufData, appended>>
     ELSE /\ bufData' = [bufData EXCEPT ![ingFile] = WritePage(@, ingPkt)]
          /\ appended' = appended \cup { ingPkt.seq }
  /\ ingPc' = "recv"
  /\ ingPkt' = NoPacket
  /\ ingFile' = NoObj
  /\ UNCHANGED <<flagVars, mapVars, wrClosed, nextObj, cntVars,
                 calls, lastOut, skipped, debugFiles,
                 stopVarsOnly, detVarsOnly, otherVars>>

\* ------------------------------------------------------ sendBufferToGoogle
\* what RecognizeAudio can return: a result (printed as a transcription), no
\* error and no result (nothing is printed), an error (the batch is written to
\* a debug file); lastOut is the outcome of a call that has just returned
RecognizeOutcomes == { "ok", "nil", "err" }

\* the recognizer invocation opened by a flush of source s: buffer.Bytes() of
\* the buffer b found by the lookup, as it is when the call is made
NewCall(s, who, b) ==
  [ssrc |-> s, by |-> who, items |-> bufData[b], buf |-> b, pending |-> TRUE]

\* the index in calls of the invocation `who` is waiting for
Pending(who) ==
  CHOOSE i \in 1..Len(calls) : calls[i].by = who /\ calls[i].pending

\* sendBufferToGoogle without the test of buffer.Len()
NothingToSendNoLen(s) == oggBuffers[s] = NoObj

\* the test at the head of sendBufferToGoogle finds nothing to send
NothingToSend(s) == oggBuffers[s] = NoObj \/ Len(bufData[oggBuffers[s]]) = 0

\* what os.WriteFile leaves behind: the new document, or on failure the old
\* file or a truncated one
WriteOutcomes == { "ok", "fail", "partial" }

\* the bytes of a truncated file
Truncated(data) == SubSeq(data, 1, Len(data) - 1)

\* writeDebugFile(ssrc, data): nothing for empty data; otherwise os.WriteFile
\* of debug_audio_<timestamp>_<ssrc>.ogg with data, replacing a file of the
\* same name (the timestamp t = time.Now() has a resolution of one second);
\* when the write fails the file is as it was or holds a part of data
writeDebugFile(files, ssrc, data, w, t) ==
  IF Len(data) = 0 \/ w = "fail" THEN files
  ELSE { f \in files : f.name # <<t, ssrc>> }
         \cup { [name |-> <<t, ssrc>>,
                 data |-> IF w = "ok" THEN data ELSE Truncated(data)] }

\* what sendBufferToGoogle does with the outcome `out` of RecognizeAudio for
\* source s and buffer b before it resets the buffer: on an error the bytes the
\* buffer holds at that moment go to a debug file
AfterRecognize(out, s, b, w, t) ==
  IF out = "err" THEN writeDebugFile(debugFiles, s, bufData[b], w, t) ELSE debugFiles

\* writeDebugFile reads the clock (line 278) if it is called with data
ClockAfterRecognize(out, b, t) ==
  IF out = "err" /\ Len(bufData[b]) > 0 THEN t ELSE now

\* ---------------------------------------------------- the silence detector
BackToScan(keys) == IF keys = {} THEN "wait" ELSE "scan"

\* the locals of checkAllForSilence (now, and the map the range runs on),
\* which are gone when the range has ended
ScanLocals ==
  /\ detNow' = IF detPc' = "wait" THEN 0 ELSE detNow
  /\ detFrozen' = (detPc' # "wait" /\ detFrozen)
  /\ detOld' = IF detPc' = "wait" THEN EmptyTime ELSE detOld

\* the value the range over lastPacketTime yields for s: of the map the range
\* was started on, also after StopProcessing has replaced p.lastPacketTime
LastTimeSeen(s) == IF detFrozen THEN detOld[s] ELSE lastPacketTime[s]

\* one tick of silenceDetector: the test of p.isProcessing and, in
\* checkAllForSilence, of p.speechService, which never changes
DetTick ==
  /\ ~Crashed
  /\ detPc = "wait"
  /\ detPc' = IF ~isProcessing THEN "done"
              ELSE IF ~speechService THEN "wait"
              ELSE "now"
  /\ UNCHANGED <<flagVars, mapVars, objVars, cntVars, obsVars,
                 stopVarsOnly, ingVarsOnly, detNow, detKeys, detFrozen, detOld,
                 detSsrc, detBuf, otherVars>>

\* checkAllForSilence: now := time.Now()
DetNow ==
  /\ ~Crashed
  /\ detPc = "now"
  /\ \E t \in TimeNow : now' = t /\ detNow' = t
  /\ detPc' = "range"
  /\ UNCHANGED <<flagVars, mapVars, objVars,
                 packetsReceived, silenceDetections, fed, obsVars,
                 stopVarsOnly, ingVarsOnly, detKeys, detFrozen, detOld,
                 detSsrc, detBuf, otherVars>>

\* checkAllForSilence: the range over p.lastPacketTime starts on the map
\* p.lastPacketTime holds at this moment
DetRange ==
  /\ ~Crashed
  /\ detPc = "range"
  /\ detKeys' = TimeKeys(lastPacketTime)
  /\ detFrozen' = FALSE
  /\ detOld' = EmptyTime
  /\ detPc' = BackToScan(detKeys')
  /\ detNow' = IF detPc' = "wait" THEN 0 ELSE detNow
  /\ UNCHANGED <<flagVars, mapVars, objVars, cntVars, obsVars,
                 stopVarsOnly, ingVarsOnly, detSsrc, detBuf,
                 otherVars>>

\* the silence test of checkAllForSilence for one source
IsSilent(nowScan, lastTime) == nowScan - lastTime > silenceThreshold

\* one iteration of the range in checkAllForSilence: the range yields ssrc
\* and lastTime, and now.Sub(lastTime) is compared with the threshold
DetCheck ==
  /\ ~Crashed
  /\ detPc = "scan"
  /\ \E s \in detKeys :
       /\ detKeys' = detKeys \ {s}
       /\ IF IsSilent(detNow, LastTimeSeen(s))
          THEN detPc' = "lookup" /\ detSsrc' = s
          ELSE detPc' = BackToScan(detKeys') /\ detSsrc' = 0
  /\ ScanLocals
  /\ UNCHANGED <<flagVars, mapVars, objVars, cntVars, obsVars,
                 stopVarsOnly, ingVarsOnly, detBuf, otherVars>>

\* checkAllForSilence: the lookup in p.oggBuffers and the test of buffer.Len()
\* before sendBufferToGoogle is called
DetLookup ==
  /\ ~Crashed
  /\ detPc = "lookup"
  /\ IF oggBuffers[detSsrc] # NoObj /\ Len(bufData[oggBuffers[detSsrc]]) > 0
     THEN detPc' = "send" /\ UNCHANGED detSsrc
     ELSE detPc' = BackToScan(detKeys) /\ detSsrc' = 0
  /\ ScanLocals
  /\ UNCHANGED <<flagVars, mapVars, objVars, cntVars, obsVars,
                 stopVarsOnly, ingVarsOnly, detKeys, detBuf, otherVars>>

\* sendBufferToGoogle called by the detector: the lookup of the buffer and
\* the test of its length
DetSend ==
  /\ ~Crashed
  /\ detPc = "send"
  /\ IF NothingToSend(detSsrc)
     THEN /\ skipped' = skipped \cup { <<detSsrc, "detector">> }
          /\ detPc' = BackToScan(detKeys)
          /\ detSsrc' = 0
          /\ UNCHANGED detBuf
     ELSE /\ detBuf' = oggBuffers[detSsrc]
          /\ detPc' = "bytes"
          /\ UNCHANGED <<skipped, detSsrc>>
  /\ ScanLocals
  /\ UNCHANGED <<flagVars, mapVars, objVars, cntVars,
                 calls, lastOut, appended, debugFiles,
                 stopVarsOnly, ingVarsOnly, detKeys, otherVars>>

\* sendBufferToGoogle called by the detector: RecognizeAudio(buffer.Bytes())
\* is called
DetBytes ==
  /\ ~Crashed
  /\ detPc = "bytes"
  /\ calls' = Append(calls, NewCall(detSsrc, "detector", detBuf))
  /\ detPc' = "call"
  /\ UNCHANGED <<flagVars, mapVars, objVars, cntVars,
                 lastOut, appended, skipped, debugFiles,
                 stopVarsOnly, ingVarsOnly, detNow, detKeys, detFrozen, detOld,
                 detSsrc, detBuf, otherVars>>

\* RecognizeAudio returns to the detector; after an error writeDebugFile
DetReturn ==
  /\ ~Crashed
  /\ detPc = "call"
  /\ \E out \in RecognizeOutcomes : \E w \in WriteOutcomes : \E t \in TimeNow :
       /\ lastOut' = out
       /\ debugFiles' = AfterRecognize(out, detSsrc, detBuf, w, t)
       /\ Cardinality(debugFiles') <= MaxDebugFiles
       /\ now' = ClockAfterRecognize(out, detBuf, t)
  /\ calls' = [calls EXCEPT ![Pending("detector")].pending = FALSE]
  /\ detPc' = "reset"
  /\ UNCHANGED <<flagVars, mapVars, objVars, packetsReceived, silenceDetections, fed,
                 appended, skipped,
                 stopVarsOnly, ingVarsOnly, detNow, detKeys, detFrozen, detOld,
                 detSsrc, detBuf, otherVars>>

\* sendBufferToGoogle called by the detector: buffer.Reset()
DetReset ==
  /\ ~Crashed
  /\ detPc = "reset"
  /\ bufData' = [bufData EXCEPT ![detBuf] = <<>>]
  /\ detPc' = "stamp"
  /\ lastOut' = "none"
  /\ UNCHANGED <<flagVars, mapVars, wrClosed, nextObj, cntVars,
                 calls, appended, skipped, debugFiles,
                 stopVarsOnly, ingVarsOnly, detNow, detKeys, detFrozen, detOld,
                 detSsrc, detBuf, otherVars>>

\* sendBufferToGoogle called by the detector: p.lastPacketTime[ssrc] = time.Now()
DetStamp ==
  /\ ~Crashed
  /\ detPc = "stamp"
  /\ \E t \in TimeNow :
       /\ now' = t
       /\ lastPacketTime' = [lastPacketTime EXCEPT ![detSsrc] = t]
  /\ detPc' = BackToScan(detKeys)
  /\ ScanLocals
  /\ detSsrc' = 0
  /\ detBuf' = NoObj
  /\ UNCHANGED <<flagVars, oggFiles, oggBuffers, objVars,
                 packetsReceived, silenceDetections, fed, obsVars,
                 stopVarsOnly, ingVarsOnly, detKeys, otherVars>>

\* ---------------------------------------------------------- StopProcessing
\* the early return of StopProcessing
AlreadyStopped == ~isProcessing

\* StopProcessing up to the range over p.oggBuffers.  A call that finds
\* processing off returns at once and changes nothing; stopCalls counts the
\* calls that found processing on.
StopBegin ==
  /\ ~Crashed
  /\ started
  /\ mutex = "free"
  /\ stopPc = "idle"
  /\ IF AlreadyStopped
     THEN UNCHANGED <<isProcessing, voiceConnection, mutex, stopPc, stopKeys, stopSeen,
                      stopCalls>>
     ELSE /\ stopCalls' = stopCalls + 1
          /\ mutex' = "stop"
          /\ isProcessing' = FALSE
          /\ voiceConnection' = FALSE
          /\ stopKeys' = IF speechService THEN Keys(oggBuffers) ELSE {}
          /\ stopSeen' = {}
          /\ stopPc' = "flush"
  /\ UNCHANGED <<speechService, mapVars, objVars, cntVars, obsVars,
                 started, closeVars, stopSsrc, stopBuf, ingVarsOnly, detVarsOnly, otherVars>>

\* the keys the range over p.oggBuffers may still produce: those present when it
\* started (stopKeys) and, possibly, entries the ingestion loop has created
\* since, without those already produced (stopSeen)
StopCandidates ==
  IF speechService THEN (stopKeys \cup Keys(oggBuffers)) \ stopSeen ELSE {}

\* sendBufferToGoogle called by StopProcessing: the lookup of the buffer and
\* the test of its length
StopSend ==
  /\ ~Crashed
  /\ stopPc = "flush"
  /\ \E s \in StopCandidates :
       /\ stopSeen' = stopSeen \cup {s}
       /\ IF NothingToSend(s)
          THEN /\ skipped' = skipped \cup { <<s, "stop">> }
               /\ UNCHANGED <<stopPc, stopSsrc, stopBuf>>
          ELSE /\ stopSsrc' = s
               /\ stopBuf' = oggBuffers[s]
               /\ stopPc' = "bytes"
               /\ UNCHANGED skipped
  /\ UNCHANGED <<flagVars, mapVars, objVars, cntVars,
                 calls, lastOut, appended, debugFiles,
                 started, closeVars, stopCalls, stopKeys, ingVarsOnly, detVarsOnly, otherVars>>

\* sendBufferToGoogle called by StopProcessing: RecognizeAudio(buffer.Bytes())
\* is called
StopBytes ==
  /\ ~Crashed
  /\ stopPc = "bytes"
  /\ calls' = Append(calls, NewCall(stopSsrc, "stop", stopBuf))
  /\ stopPc' = "call"
  /\ UNCHANGED <<flagVars, mapVars, objVars, cntVars,
                 lastOut, appended, skipped, debugFiles,
                 started, closeVars, stopCalls, stopKeys, stopSeen, stopSsrc, stopBuf,
                 ingVarsOnly, detVarsOnly, otherVars>>

\* RecognizeAudio returns to StopProcessing; after an error writeDebugFile
StopReturn ==
  /\ ~Crashed
  /\ stopPc = "call"
  /\ \E out \in RecognizeOutcomes : \E w \in WriteOutcomes : \E t \in TimeNow :
       /\ lastOut' = out
       /\ debugFiles' = AfterRecognize(out, stopSsrc, stopBuf, w, t)
       /\ Cardinality(debugFiles') <= MaxDebugFiles
       /\ now' = ClockAfterRecognize(out, stopBuf, t)
  /\ calls' = [calls EXCEPT ![Pending("stop")].pending = FALSE]
  /\ stopPc' = "reset"
  /\ UNCHANGED <<flagVars, mapVars, objVars, packetsReceived, silenceDetections, fed,
                 appended, skipped,
                 started, closeVars, stopCalls, stopKeys, stopSeen, stopSsrc, stopBuf,
                 ingVarsOnly, detVarsOnly, otherVars>>

\* sendBufferToGoogle called by StopProcessing: buffer.Reset()
StopReset ==
  /\ ~Crashed
  /\ stopPc = "reset"
  /\ bufData' = [bufData EXCEPT ![stopBuf] = <<>>]
  /\ stopPc' = "stamp"
  /\ lastOut' = "none"
  /\ UNCHANGED <<flagVars, mapVars, wrClosed, nextObj, cntVars,
                 calls, appended, skipped, debugFiles,
                 started, closeVars, stopCalls, stopKeys, stopSeen, stopSsrc, stopBuf,
                 ingVarsOnly, detVarsOnly, otherVars>>

\* sendBufferToGoogle called by StopProcessing: p.lastPacketTime[ssrc] = time.Now()
StopStamp ==
  /\ ~Crashed
  /\ stopPc = "stamp"
  /\ \E t \in TimeNow :
       /\ now' = t
       /\ lastPacketTime' = [lastPacketTime EXCEPT ![stopSsrc] = t]
  /\ stopPc' = "flush"
  /\ stopSsrc' = 0
  /\ stopBuf' = NoObj
  /\ UNCHANGED <<flagVars, oggFiles, oggBuffers, objVars,
                 packetsReceived, silenceDetections, fed, obsVars,
                 started, closeVars, stopCalls, stopKeys, stopSeen,
                 ingVarsOnly, detVarsOnly, otherVars>>

\* StopProcessing: the range over p.oggBuffers has ended and the range over
\* p.oggFiles starts
StopRange ==
  /\ ~Crashed
  /\ stopPc = "flush"
  /\ stopKeys \subseteq stopSeen
  /\ closeKeys' = Keys(oggFiles)
  /\ closeSeen' = {}
  /\ stopPc' = "close"
  /\ UNCHANGED <<flagVars, mapVars, objVars, cntVars, obsVars,
                 started, stopCalls, stopKeys, stopSeen, stopSsrc, stopBuf,
                 ingVarsOnly, detVarsOnly, otherVars>>

\* the keys the range over p.oggFiles may still produce
CloseCandidates == (closeKeys \cup Keys(oggFiles)) \ closeSeen

\* StopProcessing: oggFile.Close() for one entry of p.oggFiles
StopCloseWriter ==
  /\ ~Crashed
  /\ stopPc = "close"
  /\ \E s \in CloseCandidates :
       /\ closeSeen' = closeSeen \cup {s}
       /\ wrClosed' = [wrClosed EXCEPT ![oggFiles[s]] = TRUE]
  /\ UNCHANGED <<flagVars, mapVars, bufData, nextObj, cntVars, obsVars,
                 started, stopCalls, stopPc, stopKeys, stopSeen, closeKeys, stopSsrc, stopBuf,
                 ingVarsOnly, detVarsOnly, otherVars>>

\* StopProcessing: the range over p.oggFiles has ended;
\* p.oggFiles = make(map[uint32]*oggwriter.OggWriter)
StopFiles ==
  /\ ~Crashed
  /\ stopPc = "close"
  /\ closeKeys \subseteq closeSeen
  /\ oggFiles' = EmptyMap
  /\ stopPc' = "buffers"
  /\ UNCHANGED <<flagVars, oggBuffers, lastPacketTime, objVars, cntVars, obsVars,
                 started, closeVars, stopCalls, stopKeys, stopSeen, stopSsrc, stopBuf,
                 ingVarsOnly, detVarsOnly, otherVars>>

\* StopProcessing: p.oggBuffers = make(map[uint32]*bytes.Buffer)
StopBuffers ==
  /\ ~Crashed
  /\ stopPc = "buffers"
  /\ oggBuffers' = EmptyMap
  /\ stopPc' = "times"
  /\ UNCHANGED <<flagVars, oggFiles, lastPacketTime, objVars, cntVars, obsVars,
                 started, closeVars, stopCalls, stopKeys, stopSeen, stopSsrc, stopBuf,
                 ingVarsOnly, detVarsOnly, otherVars>>

\* StopProcessing: p.lastPacketTime = make(map[uint32]time.Time), and the
\* return, which unlocks p.mutex
StopTimes ==
  /\ ~Crashed
  /\ stopPc = "times"
  /\ lastPacketTime' = EmptyTime
  /\ IF detPc \in {"scan", "lookup", "send", "bytes", "call", "reset", "stamp"}
        /\ ~detFrozen
     THEN detFrozen' = TRUE /\ detOld' = lastPacketTime
     ELSE UNCHANGED <<detFrozen, detOld>>
  /\ stopPc' = "idle"
  /\ closeKeys' = {}
  /\ closeSeen' = {}
  /\ mutex' = "free"
  /\ UNCHANGED <<speechService, isProcessing, voiceConnection,
                 oggFiles, oggBuffers, objVars, cntVars, obsVars,
                 started, stopCalls, stopKeys, stopSeen, stopSsrc, stopBuf, ingVarsOnly,
                 detPc, detNow, detKeys, detSsrc, detBuf, otherVars>>

Init ==
  /\ InitProc
  /\ IdleClassify
  /\ IdleSend
  /\ IdleAux
  /\ IdleRuns
  /\ IdleConv
  /\ IdleBot

Next ==
  \/ StartProcessing
  \/ IngestInit
  \/ IngestRange
  \/ IngestRecv
  \/ IngestProc
  \/ IngestFiles
  \/ IngestBuffers
  \/ IngestTime
  \/ IngestWrite
  \/ DetTick
  \/ DetNow
  \/ DetRange
  \/ DetCheck
  \/ DetLookup
  \/ DetSend
  \/ DetBytes
  \/ DetReturn
  \/ DetReset
  \/ DetStamp
  \/ StopBegin
  \/ StopSend
  \/ StopBytes
  \/ StopReturn
  \/ StopReset
  \/ StopStamp
  \/ StopRange
  \/ StopCloseWriter
  \/ StopFiles
  \/ StopBuffers
  \/ StopTimes

Spec == Init /\ [][Next]_vars

\* ------------------------------------------- the packet classifier alone
ClassifierInputs ==
  { NilPacket(1) } \cup { Packet(1, 1, o) : o \in SeqsUpTo(Bytes, MaxLen) }

InitClassify ==
  /\ InitProc
  /\ clsIn \in ClassifierInputs
  /\ clsOut = "none"
  /\ IdleRuns
  /\ IdleConv
  /\ IdleBot
  /\ IdleSend
  /\ IdleAux

ClassifyStep ==
  /\ clsOut = "none"
  /\ clsOut' = Classify(clsIn)
  /\ UNCHANGED <<procVars, clsIn, runVars, convVars, botVars, sndVars, auxVars>>

SpecClassify == InitClassify /\ [][ClassifyStep]_vars
\* ================================================================ claims
\* the sequence numbers of the voice packets among the pages of a batch or buffer
PacketsOf(items) == { items[i].seq : i \in 1..Len(items) } \ {0}

\* the voice packets handed to the recognizer so far
Flushed == UNION { PacketsOf(calls[i].items) : i \in 1..Len(calls) }

\* StopProcessing has been called and has returned
StopReturned == stopCalls > 0 /\ stopPc = "idle"

\* the voice packets in the buffers of the sessions a flush can still reach
Buffered ==
  IF StopReturned THEN {}
  ELSE UNION { PacketsOf(bufData[oggBuffers[s]]) : s \in Keys(oggBuffers) }

\* C1: no accepted voice packet is omitted: every voice packet appended to a
\* source's buffer is in a batch handed to the recognizer or is still buffered
\* for a flush to come; in particular, while processing is active, a packet
\* appended between the moment a batch is taken and the moment the buffer is
\* cleared is not lost.
C1_NoPacketOmitted ==
  (speechService /\ stopCalls = 0) => appended \subseteq (Flushed \cup Buffered)

\* C2: no voice packet is included in two flush batches.
C2_NoPacketInTwoBatches ==
  \A i, j \in 1..Len(calls) :
    i # j => PacketsOf(calls[i].items) \cap PacketsOf(calls[j].items) = {}

\* the pages of every buffer and of every batch
AllPages ==
  UNION ({ { bufData[o][i] : i \in 1..Len(bufData[o]) } : o \in Objs } \cup
         { { calls[k].items[i] : i \in 1..Len(calls[k].items) } : k \in 1..Len(calls) })

\* C3: no packet whose payload is the silence sentinel (248, 255, 254) is ever
\* written to a buffer or present in a flush batch.
C3_NoSilenceInBatch ==
  \A pg \in AllPages : pg.opus # <<248, 255, 254>>

\* C3 witness: silence markers were received and a batch with a voice packet
\* was handed to the recognizer.
C3_Witness ==
  /\ silenceDetections > 0
  /\ \E k \in 1..Len(calls) : PacketsOf(calls[k].items) # {}

\* C5: every flush batch and every buffer holds pages of its own source only.
C5_BatchOfOwnSource ==
  /\ \A k \in 1..Len(calls) :
       \A i \in 1..Len(calls[k].items) : calls[k].items[i].ssrc = calls[k].ssrc
  /\ \A s \in Keys(oggBuffers) :
       \A i \in 1..Len(bufData[oggBuffers[s]]) : bufData[oggBuffers[s]][i].ssrc = s

\* C5 witness: a packet of source 1 and a packet of source 2 arrived, both
\* sources fell silent, and the detector produced one batch for each.
C5_Witness ==
  \E i, j \in 1..Len(calls) :
    /\ calls[i].by = "detector" /\ calls[i].ssrc = 1
    /\ PacketsOf(calls[i].items) = {1}
    /\ calls[j].by = "detector" /\ calls[j].ssrc = 2
    /\ PacketsOf(calls[j].items) = {2}

\* C7: after StopProcessing has returned every writer created during the run
\* is closed and no session state exists for any source.
C7_NoSessionAfterStop ==
  StopReturned =>
    /\ oggFiles = EmptyMap
    /\ oggBuffers = EmptyMap
    /\ lastPacketTime = EmptyTime
    /\ \A o \in Objs : o < nextObj => wrClosed[o]
\* ---------------------------------------------------------------- C4
\* StopProcessing has not been called
NoStop == stopCalls = 0

\* the detector takes the buffer of detSsrc in this step: sendBufferToGoogle
\* reaches RecognizeAudio(buffer.Bytes())
DetectorTakesBuffer == detPc = "bytes" /\ detPc' = "call"

\* the detector clears the buffer of detSsrc in this step: buffer.Reset()
DetectorClearsBuffer == detPc = "reset" /\ detPc' = "stamp"

\* a voice packet of source s that has its time stamp (line 217) and is not
\* yet written to the buffer (line 235)
PacketOnItsWay(s) ==
  ingPc = "write" /\ SessionKey(ingPkt) = s /\ ~wrClosed[ingFile]

\* a scan of checkAllForSilence ends in this step
ScanEnds == detPc \in { "range", "scan", "lookup", "send", "stamp" } /\ detPc' = "wait"

\* C4: n >= 1 voice packets of a source followed by more than the silence
\* threshold (2 seconds) without a packet give exactly one flush: one batch
\* with exactly those n packets, handed to the recognizer once, and no flush of
\* the source by later ticks until a new voice packet has arrived.  While
\* processing is active:
\*  - every batch holds at least one voice packet, and no two batches share one;
\*  - between flushes no buffer holds a packet that was already handed to the
\*    recognizer, so a later tick finds nothing to flush until a new voice
\*    packet arrives;
\*  - the batch holds no packet beyond those n: when the detector takes the
\*    buffer, every packet in it is older than the silence threshold (the last
\*    packet of the source is, or a newer one has its time stamp and is not yet
\*    in the buffer);
\*  - the batch holds all of those n: the buffer.Reset() of the flush removes
\*    no voice packet that was not handed to the recognizer;
\*  - the flush happens: when a scan of the detector ends, no source is left
\*    with a non-empty buffer whose last packet was more than 2 seconds old
\*    when the scan read the clock.
C4_OneFlushPerSilence ==
  /\ []((speechService /\ NoStop) =>
         /\ \A i \in 1..Len(calls) : PacketsOf(calls[i].items) # {}
         /\ \A i, j \in 1..Len(calls) :
              i # j => PacketsOf(calls[i].items) \cap PacketsOf(calls[j].items) = {}
         /\ detPc \notin {"call", "reset"} =>
              \A s \in Keys(oggBuffers) :
                PacketsOf(bufData[oggBuffers[s]]) \cap Flushed = {})
  /\ [][ (speechService /\ NoStop) =>
           /\ DetectorTakesBuffer =>
                \/ /\ lastPacketTime[detSsrc] # NoTime
                   /\ IsSilent(now, lastPacketTime[detSsrc])
                \/ /\ PacketOnItsWay(detSsrc)
                   /\ ingPkt.seq \notin PacketsOf(bufData[detBuf])
           /\ DetectorClearsBuffer => PacketsOf(bufData[detBuf]) \subseteq Flushed
           /\ ScanEnds =>
                \A s \in TimeKeys(lastPacketTime') :
                  (oggBuffers'[s] # NoObj /\ Len(bufData'[oggBuffers'[s]]) > 0)
                    => ~IsSilent(detNow, lastPacketTime'[s])
       ]_vars

\* ---------------------------------------------------------------- C6
\* the batches StopProcessing handed to the recognizer for source s
StopBatches(s) == { i \in 1..Len(calls) : calls[i].by = "stop" /\ calls[i].ssrc = s }

\* C6: the final flush of StopProcessing.  Every source StopProcessing visits
\* gets exactly one final batch if its buffer is non-empty and none if it is
\* empty; no source ever gets a second final batch, also when StopProcessing is
\* called again; and once StopProcessing has returned every source that had a
\* session when it was called (stopKeys) has been visited.
C6_OneFinalFlush ==
  /\ \A s \in Sources :
       /\ Cardinality(StopBatches(s)) <= 1
       /\ \A i \in StopBatches(s) : Len(calls[i].items) > 0
       /\ ~(StopBatches(s) # {} /\ <<s, "stop">> \in skipped)
       /\ (StopBatches(s) # {} \/ <<s, "stop">> \in skipped
             \/ (stopPc = "bytes" /\ stopSsrc = s)) <=> s \in stopSeen
  /\ StopReturned => stopKeys \subseteq stopSeen

\* ---------------------------------------------------------------- C8
\* the recognizer invocations for source s that have not returned
OutstandingFor(s) == { i \in 1..Len(calls) : calls[i].ssrc = s /\ calls[i].pending }

\* C8: submitting a flush batch never blocks.  The thread that submits a batch
\* (the silence detector, or StopProcessing) never waits for the recognizer;
\* the batches of a source that wait for the recognizer (its queue) never
\* exceed the capacity of 10, a batch beyond it being dropped and counted; and
\* whatever batches are waiting, the next step of the ingestion loop can be
\* taken.  The code has neither queue nor drop counter: a batch waits for the
\* recognizer exactly while the thread that took it is inside RecognizeAudio.
C8_SubmitNeverBlocks ==
  /\ detPc # "call" /\ stopPc # "call"
  /\ \A s \in Sources : Cardinality(OutstandingFor(s)) <= 10
  /\ (ingPc = "recv" /\ fed < MaxPackets) => ENABLED IngestRecv
  /\ ingPc = "proc" => ENABLED IngestProc
  /\ ingPc = "files" => ENABLED IngestFiles
  /\ ingPc = "buffers" => ENABLED IngestBuffers
  /\ ingPc = "time" => ENABLED IngestTime
  /\ ingPc = "write" => ENABLED IngestWrite

\* the recognizer invocations of `who` that have not returned
Outstanding(who) == { i \in 1..Len(calls) : calls[i].by = who /\ calls[i].pending }

\* ---------------------------------------------------------------- C9
\* sendBufferToGoogle(s) is entered in this step, by the detector or by
\* StopProcessing
FlushEntered(s) ==
  \/ detPc = "send" /\ detSsrc = s /\ detPc' # "send"
  \/ stopPc = "flush" /\ s \notin stopSeen /\ s \in stopSeen'

\* C9: the buffer.Reset() of a flush leaves the buffer empty, and a flush of a
\* source that finds the buffer empty (flushed before, nothing appended since)
\* returns at the test of buffer.Len(): it makes no recognizer call and leaves
\* the buffer empty.
C9_SecondFlushEmpty ==
  [][ /\ (detPc = "reset" /\ detPc' # "reset") => bufData'[detBuf] = <<>>
      /\ (stopPc = "reset" /\ stopPc' # "reset") => bufData'[stopBuf] = <<>>
      /\ \A s \in Sources :
           (FlushEntered(s) /\ oggBuffers[s] # NoObj /\ bufData[oggBuffers[s]] = <<>>)
             => /\ calls' = calls /\ bufData' = bufData
                /\ detPc' \notin {"bytes", "call"} \/ detPc = detPc'
                /\ stopPc' \notin {"bytes", "call"} \/ stopPc = stopPc' ]_vars

\* C9 witness: source 1 was flushed by the detector, nothing was appended
\* afterwards, and the flush of StopProcessing found its buffer empty.
C9_Witness ==
  /\ Len(calls) = 1
  /\ calls[1].by = "detector" /\ calls[1].ssrc = 1 /\ ~calls[1].pending
  /\ appended = PacketsOf(calls[1].items)
  /\ <<1, "stop">> \in skipped

\* --------------------------------------------------------------- C10
\* C10: a packet is Silence iff its payload is exactly the three bytes
\* 248, 255, 254; Empty iff it is nil or its payload has length zero; Voice in
\* every other case.
C10_Classification ==
  clsOut # "none" =>
    LET empty   == clsIn.isNil \/ Len(clsIn.opus) = 0
        silence == ~clsIn.isNil /\ clsIn.opus = <<248, 255, 254>>
    IN  /\ (clsOut = "Empty") <=> empty
        /\ (clsOut = "Silence") <=> silence
        /\ (clsOut = "Voice") <=> (~empty /\ ~silence)

\* C10 witness: a 3-byte payload that differs from the sentinel in its last
\* byte only was classified as Voice.
C10_Witness ==
  /\ clsOut = "Voice"
  /\ Len(clsIn.opus) = 3
  /\ clsIn.opus[1] = 248 /\ clsIn.opus[2] = 255 /\ clsIn.opus[3] # 254

\* --------------------------------------------------------------- C13
\* C13: for each source at most one recognizer call is outstanding at any
\* time (so that the results of a source come back in flush order).
C13_OneOutstandingPerSource ==
  \A s \in Sources : Cardinality(OutstandingFor(s)) <= 1

\* --------------------------------------------------------------- C14
\* the recognizer call of `who` returns in this step with an error
FailedReturn(who) ==
  /\ IF who = "detector" THEN detPc = "call" /\ detPc' # "call"
                         ELSE stopPc = "call" /\ stopPc' # "call"
  /\ lastOut' = "err"

\* the debug file that holds the batch of the call `who` is waiting for
FileOfBatch(who) ==
  [name |-> <<now', calls[Pending(who)].ssrc>>, data |-> calls[Pending(who)].items]

\* C14: when the recognizer call for a batch fails, the batch is not sent
\* again by the failure handling, the bytes of the batch are in a debug file
\* named with the time and the source, and the buffer of the source is empty.
\* (a failure of os.WriteFile, which leaves no file or a part of it, is let pass)
C14_FailedBatchFiled ==
  [][ /\ \A who \in {"detector", "stop"} :
           FailedReturn(who) =>
             /\ \/ FileOfBatch(who) \in debugFiles'
                \/ [FileOfBatch(who) EXCEPT !.data = Truncated(@)] \in debugFiles'
                \/ debugFiles' = debugFiles
             /\ Len(calls') = Len(calls)
      /\ (detPc = "reset" /\ detPc' # "reset") => bufData'[detBuf] = <<>>
      /\ (stopPc = "reset" /\ stopPc' # "reset") => bufData'[stopBuf] = <<>> ]_vars

\* --------------------------------------------------------------- C15
\* C15: a session for a source is created only by the ingestion loop handling
\* a voice packet of that source while the source has no session (never by a
\* silence-marker or empty packet), with a fresh writer and buffer; once
\* created, writer and buffer of the source stay the same objects, and the
\* writer stays open, across flushes, as long as processing is on: only
\* StopProcessing closes writers, and no step of a flush touches the maps.
C15_SessionLifetime ==
  [][ /\ \A s \in Sources :
           /\ (oggFiles[s] = NoObj /\ oggFiles'[s] # NoObj) =>
                /\ ingPc = "files" /\ ~ingPkt.isNil /\ ingPkt.ssrc = s
                /\ Len(ingPkt.opus) > 0 /\ ingPkt.opus # <<248, 255, 254>>
                /\ oggFiles'[s] = ingFile
                /\ \A s2 \in Sources : oggFiles[s2] # ingFile /\ oggBuffers[s2] # ingFile
                /\ ~wrClosed[ingFile]
           /\ (oggBuffers[s] = NoObj /\ oggBuffers'[s] # NoObj) =>
                /\ ingPc = "buffers" /\ ingPkt.ssrc = s
                /\ Len(ingPkt.opus) > 0 /\ ingPkt.opus # <<248, 255, 254>>
                /\ oggBuffers'[s] = ingFile
                /\ \A s2 \in Sources : oggBuffers[s2] # ingFile
           /\ (isProcessing /\ oggFiles[s] # NoObj) =>
                (oggFiles'[s] = oggFiles[s] /\ ~wrClosed'[oggFiles[s]])
           /\ (isProcessing /\ oggBuffers[s] # NoObj) => oggBuffers'[s] = oggBuffers[s]
      /\ wrClosed' # wrClosed => (stopPc = "close" /\ stopPc' = "close")
      /\ (detPc \in {"call", "reset", "stamp"} /\ detPc' # detPc) =>
           UNCHANGED <<oggFiles, oggBuffers, wrClosed>>
      /\ (stopPc \in {"call", "reset", "stamp"} /\ stopPc' # stopPc) =>
           UNCHANGED <<oggFiles, oggBuffers, wrClosed>> ]_vars

\* C15 witness: source 1 got a session from its first voice packet, the
\* detector flushed source 1, and the next voice packet of source 1 went into
\* the same buffer.
C15_Witness ==
  /\ NoStop
  /\ nextObj = 2
  /\ Keys(oggFiles) = {1} /\ Keys(oggBuffers) = {1}
  /\ \E i \in 1..Len(calls) :
       /\ calls[i].ssrc = 1 /\ ~calls[i].pending
       /\ oggBuffers[1] = calls[i].buf
       /\ PacketsOf(bufData[calls[i].buf]) # {}
       /\ PacketsOf(bufData[calls[i].buf]) \cap PacketsOf(calls[i].items) = {}

\* --------------------------------------------------------------- C20
\* the threads that have read the session maps and are using a session
Accessing ==
  (IF ingPc \in {"files", "buffers", "time", "write"} THEN {"ingest"} ELSE {}) \cup
  (IF detPc \in {"lookup", "send", "bytes", "call", "reset", "stamp"}
   THEN {"detector"} ELSE {}) \cup
  (IF stopPc \in {"flush", "bytes", "call", "reset", "stamp", "close", "buffers", "times"}
   THEN {"stop"} ELSE {})

\* C20: every access to the session state by the ingestion loop, the silence
\* detector or StopProcessing happens while that thread holds the processor's
\* lock, so no two of them access it at the same time.
C20_AccessUnderLock ==
  /\ \A th \in Accessing : mutex = th
  /\ Cardinality(Accessing) <= 1

\* =================================================== the loops over several runs
\* StartProcessing and StopProcessing called any number of times, and the two
\* goroutines each successful StartProcessing starts.  Only what decides
\* whether a loop goes on is kept: p.isProcessing, p.voiceConnection and
\* p.mutex; the sessions are left out.  A loop belongs to the run that started
\* it and ranges over the OpusRecv channel of that run's voice connection.
sessionVars == <<speechService, oggFiles, oggBuffers, lastPacketTime, bufData,
                 wrClosed, nextObj, packetsReceived, silenceDetections, now, fed,
                 stopVarsOnly, ingVarsOnly, detVarsOnly,
                 calls, lastOut, appended, skipped, debugFiles>>

InitRuns ==
  /\ InitProc
  /\ IdleRuns
  /\ IdleClassify
  /\ IdleSend
  /\ IdleAux
  /\ IdleConv
  /\ IdleBot

\* a processAudioPackets has dereferenced p.voiceConnection after
\* StopProcessing set it to nil: the panic ends the process and every loop
RunsCrashed == \E r \in Runs : ingLoops[r] = "panic"

\* StartProcessing: returns an error when processing is on; otherwise sets the
\* flag and starts the two goroutines of this run
RunStartProcessing ==
  /\ ~RunsCrashed
  /\ mutex = "free"
  /\ ~isProcessing
  /\ runs < MaxRuns
  /\ runs' = runs + 1
  /\ voiceConnection' = TRUE
  /\ isProcessing' = TRUE
  /\ ingLoops' = [ingLoops EXCEPT ![runs + 1] = "init"]    \* go p.processAudioPackets()
  /\ detLoops' = [detLoops EXCEPT ![runs + 1] = "wait"]    \* go p.silenceDetector()
  /\ UNCHANGED <<mutex, runPackets, sessionVars, clsVars, convVars, botVars, sndVars, auxVars>>

\* StopProcessing up to the final flush: returns at once when processing is off
RunStopBegin ==
  /\ ~RunsCrashed
  /\ mutex = "free"
  /\ isProcessing
  /\ mutex' = "stop"
  /\ isProcessing' = FALSE
  /\ voiceConnection' = FALSE
  /\ UNCHANGED <<runVars, sessionVars, clsVars, convVars, botVars, sndVars, auxVars>>

\* StopProcessing returns and releases the lock
RunStopEnd ==
  /\ ~RunsCrashed
  /\ mutex = "stop"
  /\ mutex' = "free"
  /\ UNCHANGED <<isProcessing, voiceConnection, runVars, sessionVars,
                 clsVars, convVars, botVars, sndVars, auxVars>>

\* processAudioPackets of run r: the test of p.voiceConnection for nil
RunIngestInit(r) ==
  /\ ~RunsCrashed
  /\ ingLoops[r] = "init"
  /\ ingLoops' = [ingLoops EXCEPT ![r] = IF voiceConnection THEN "range" ELSE "done"]
  /\ UNCHANGED <<isProcessing, voiceConnection, mutex, runs, detLoops, runPackets,
                 sessionVars, clsVars, convVars, botVars, sndVars, auxVars>>

\* processAudioPackets of run r: p.voiceConnection.OpusRecv is evaluated for
\* the range, of the connection the field holds now
RunIngestRange(r) ==
  /\ ~RunsCrashed
  /\ ingLoops[r] = "range"
  /\ ingLoops' = [ingLoops EXCEPT ![r] = IF voiceConnection THEN "recv" ELSE "panic"]
  /\ UNCHANGED <<isProcessing, voiceConnection, mutex, runs, detLoops, runPackets,
                 sessionVars, clsVars, convVars, botVars, sndVars, auxVars>>

\* a packet arrives on the channel the loop of run r ranges over: the loop
\* looks at p.isProcessing only now
RunIngestRecv(r) ==
  /\ ~RunsCrashed
  /\ ingLoops[r] = "recv"
  /\ runPackets < MaxRunPackets
  /\ runPackets' = runPackets + 1
  /\ ingLoops' = [ingLoops EXCEPT ![r] = IF ~isProcessing THEN "done" ELSE "recv"]
  /\ UNCHANGED <<isProcessing, voiceConnection, mutex, runs, detLoops,
                 sessionVars, clsVars, convVars, botVars, sndVars, auxVars>>

\* a tick of the silenceDetector of run r
RunDetTick(r) ==
  /\ ~RunsCrashed
  /\ detLoops[r] = "wait"
  /\ detLoops' = [detLoops EXCEPT ![r] = IF ~isProcessing THEN "done" ELSE "check"]
  /\ UNCHANGED <<isProcessing, voiceConnection, mutex, runs, ingLoops, runPackets,
                 sessionVars, clsVars, convVars, botVars, sndVars, auxVars>>

\* checkAllForSilence of run r returns
RunDetCheck(r) ==
  /\ ~RunsCrashed
  /\ detLoops[r] = "check"
  /\ detLoops' = [detLoops EXCEPT ![r] = "wait"]
  /\ UNCHANGED <<isProcessing, voiceConnection, mutex, runs, ingLoops, runPackets,
                 sessionVars, clsVars, convVars, botVars, sndVars, auxVars>>

NextRuns ==
  \/ RunStartProcessing
  \/ RunStopBegin
  \/ RunStopEnd
  \/ \E r \in Runs : RunIngestInit(r)
  \/ \E r \in Runs : RunIngestRange(r)
  \/ \E r \in Runs : RunIngestRecv(r)
  \/ \E r \in Runs : RunDetTick(r)
  \/ \E r \in Runs : RunDetCheck(r)

\* The Go scheduler runs every goroutine that can run, the ticker keeps
\* sending ticks, and a call that was made returns; whether a packet arrives
\* and whether StartProcessing or StopProcessing is called is up to the
\* environment.
SpecRuns ==
  /\ InitRuns
  /\ [][NextRuns]_vars
  /\ WF_vars(RunStopEnd)
  /\ \A r \in Runs : WF_vars(RunIngestInit(r))
  /\ \A r \in Runs : WF_vars(RunIngestRange(r))
  /\ \A r \in Runs : WF_vars(RunDetTick(r))
  /\ \A r \in Runs : WF_vars(RunDetCheck(r))

\* --------------------------------------------------------------- C11
\* the ingestion loops and the detector loops that have not returned
LiveIngestLoops ==
  IF RunsCrashed THEN {} ELSE { r \in Runs : ingLoops[r] \in {"init", "range", "recv"} }
LiveDetLoops    ==
  IF RunsCrashed THEN {} ELSE { r \in Runs : detLoops[r] \in {"wait", "check"} }

\* C11: at any time at most one ingestion loop and at most one silence
\* detector loop are running, whatever the sequence of StartProcessing and
\* StopProcessing calls.
C11_OneLoopOfEachKind ==
  /\ Cardinality(LiveIngestLoops) <= 1
  /\ Cardinality(LiveDetLoops) <= 1

\* --------------------------------------------------------------- C12
\* C12: if StopProcessing is called and processing is not started again, the
\* ingestion loop and the silence detector eventually have returned, whether
\* or not a further packet arrives.
C12_LoopsTerminate ==
  <>[](runs > 0 /\ ~isProcessing) => <>[](LiveIngestLoops = {} /\ LiveDetLoops = {})

\* ================================================ the ConversationManager
\* internal/claude/conversation.go.  Every exported method holds cm.mutex from
\* its first to its last statement, so each is one step.  Texts are numbered
\* by the operation that brought them.
procAndOther == <<procVars, clsVars, runVars, botVars, sndVars, auxVars>>

\* fmt.Sprintf("[TRANSCRIPTION] SSRC %d: %s", ssrc, text)
Transcription(ssrc, text) == [tag |-> "[TRANSCRIPTION] SSRC", ssrc |-> ssrc, text |-> text]

\* a line of text that is not a transcription: a question, an answer, a line of
\* an earlier session
Line(kind, text) == [tag |-> kind, ssrc |-> 0, text |-> text]

\* only the latest line of the buffer goes into the message
JoinLinesLast(buf) == <<buf[Len(buf)]>>

\* strings.Join(cm.transcriptionBuf, "\n"): the lines in order
JoinLines(buf) == buf

CreateUserMessage(content)      == [role |-> "user", content |-> content]
CreateAssistantMessage(content) == [role |-> "assistant", content |-> content]

\* trimMessages that keeps the oldest messages instead of the most recent ones
trimMessagesKeepOldest(msgs) ==
  IF Len(msgs) <= maxMessages THEN msgs
  ELSE SubSeq(msgs, 1, (maxMessages * 3) \div 4)

\* trimMessages
trimMessages(msgs) ==
  IF Len(msgs) <= maxMessages THEN msgs
  ELSE LET keepCount  == (maxMessages * 3) \div 4
           startIndex == Len(msgs) - keepCount
       IN  SubSeq(msgs, startIndex + 1, Len(msgs))

\* the JSON document saveToDisk writes for msgs, and the messages loadFromDisk
\* reads from a document
Marshal(msgs)   == [kind |-> "json", messages |-> msgs]
Unmarshal(file) == file.messages

saveToDisk(msgs, w) ==
  IF w = "ok" THEN Marshal(msgs) ELSE IF w = "fail" THEN disk ELSE CorruptFile

\* loadFromDisk: a missing or unreadable file leaves the fresh conversation
loadFromDisk(file) ==
  IF file.kind # "json" THEN <<>> ELSE Unmarshal(file)

\* the conversation files an earlier process with the same maxMessages left
OldMessages(k) == [i \in 1..k |-> CreateUserMessage(<<Line("old", i)>>)]
OldFiles == {NoFile, CorruptFile} \cup { Marshal(OldMessages(k)) : k \in 0..maxMessages }

InitConv ==
  /\ InitProc
  /\ IdleClassify
  /\ IdleSend
  /\ IdleAux
  /\ IdleRuns
  /\ IdleBot
  /\ messages = <<>>
  /\ transcriptionBuf = <<>>
  /\ disk \in OldFiles
  /\ cmLoaded = FALSE
  /\ cmOps = 0
  /\ lastOp = "none"
  /\ pendingAge = 0

\* NewConversationManager, at the start of the process and of every later one
NewConversationManager ==
  /\ cmOps < MaxOps
  /\ cmOps' = cmOps + 1
  /\ cmLoaded' = TRUE
  /\ messages' = loadFromDisk(disk)
  /\ transcriptionBuf' = <<>>
  /\ pendingAge' = 0
  /\ lastOp' = "load"
  /\ UNCHANGED <<disk, procAndOther>>

\* AddTranscription(ssrc, text), called by the transcription callback
AddTranscription ==
  /\ cmLoaded
  /\ cmOps < MaxOps
  /\ cmOps' = cmOps + 1
  /\ \E ssrc \in Sources :
       transcriptionBuf' = Append(transcriptionBuf, Transcription(ssrc, cmOps + 1))
  /\ lastOp' = "add"
  /\ UNCHANGED <<messages, disk, cmLoaded, pendingAge, procAndOther>>

\* FlushTranscriptions, called by the flush command
FlushTranscriptions ==
  /\ cmLoaded
  /\ cmOps < MaxOps
  /\ cmOps' = cmOps + 1
  /\ IF Len(transcriptionBuf) = 0
     THEN /\ lastOp' = "flush_empty"
          /\ UNCHANGED <<messages, transcriptionBuf, disk, pendingAge>>
     ELSE /\ messages' = trimMessages(Append(messages, CreateUserMessage(JoinLines(transcriptionBuf))))
          /\ transcriptionBuf' = <<>>
          /\ pendingAge' = 0
          /\ \E w \in WriteOutcomes :
               /\ disk' = saveToDisk(messages', w)
               /\ lastOp' = IF w = "ok" THEN "flush" ELSE "flush_nosave"
  /\ UNCHANGED <<cmLoaded, procAndOther>>

\* what SendMessage and GetResponseText give AskQuestion: a text, an error, or
\* a response without text
AskOutcomes == { "ok", "err", "empty" }

\* AskQuestion(question), called by the ask command
AskQuestion ==
  /\ cmLoaded
  /\ cmOps < MaxOps
  /\ cmOps' = cmOps + 1
  /\ LET flushed == IF Len(transcriptionBuf) > 0
                    THEN Append(messages, CreateUserMessage(JoinLines(transcriptionBuf)))
                    ELSE messages
         asked   == Append(flushed, CreateUserMessage(<<Line("question", cmOps + 1)>>))
     IN  \E out \in AskOutcomes :
           IF out = "ok"
           THEN /\ messages' = trimMessages(Append(asked, CreateAssistantMessage(<<Line("answer", cmOps + 1)>>)))
                /\ \E w \in WriteOutcomes :
                     /\ disk' = saveToDisk(messages', w)
                     /\ lastOp' = IF w = "ok" THEN "ask" ELSE "ask_nosave"
           ELSE /\ messages' = asked          \* the error return: no trim, no save
                /\ lastOp' = "ask_failed"
                /\ UNCHANGED disk
  /\ transcriptionBuf' = <<>>
  /\ pendingAge' = 0
  /\ UNCHANGED <<cmLoaded, procAndOther>>

\* ClearConversation, called by the clear command
ClearConversation ==
  /\ cmLoaded
  /\ cmOps < MaxOps
  /\ cmOps' = cmOps + 1
  /\ messages' = <<>>
  /\ transcriptionBuf' = <<>>
  /\ pendingAge' = 0
  /\ \E w \in WriteOutcomes :
       /\ disk' = saveToDisk(messages', w)
       /\ lastOp' = IF w = "ok" THEN "clear" ELSE "clear_nosave"
  /\ UNCHANGED <<cmLoaded, procAndOther>>

\* 10 seconds pass while transcriptions are pending and no command is given:
\* the bot starts no timer or goroutine for the ConversationManager, so nothing
\* else happens
ConvTick ==
  /\ cmLoaded
  /\ Len(transcriptionBuf) > 0
  /\ pendingAge < MaxWait
  /\ pendingAge' = pendingAge + 1
  /\ UNCHANGED <<messages, transcriptionBuf, disk, cmLoaded, cmOps, lastOp, procAndOther>>

NextConv ==
  \/ NewConversationManager
  \/ AddTranscription
  \/ FlushTranscriptions
  \/ AskQuestion
  \/ ClearConversation
  \/ ConvTick

SpecConv == InitConv /\ [][NextConv]_vars

\* --------------------------------------------------------------- C16
\* C16: after every ConversationManager operation, construction with an
\* existing file included, the conversation holds at most maxMessages messages.
C16_AtMostMaxMessages ==
  cmLoaded => Len(messages) <= maxMessages

\* --------------------------------------------------------------- C17
\* C17: pending transcriptions are flushed in the background every 10 seconds:
\* no transcription is still in the pending buffer after two periods of 10 s
\* have gone by since it was added.
C17_FlushedInBackground ==
  pendingAge < MaxWait

\* --------------------------------------------------------------- C18
\* C18: after every completed operation that changes the messages
\* (FlushTranscriptions, AskQuestion succeeding or failing, ClearConversation)
\* and whose file write, if any, succeeded, the conversation file holds the
\* in-memory messages.
C18_FileEqualsMemory ==
  lastOp \in {"flush", "ask", "ask_failed", "clear"} =>
    /\ disk.kind = "json"
    /\ loadFromDisk(disk) = messages

\* ======================================================= voice-state updates
\* internal/bot/bot.go: onVoiceStateUpdate with joinVoiceChannel and
\* leaveVoiceChannel.  Of the audio processor only the effect of
\* StartProcessing and StopProcessing on p.isProcessing and p.voiceConnection
\* is kept.
DMUserID          == "dm"                 \* b.config.DMUserID
DNDVoiceChannelID == "dnd"                \* b.config.DNDVoiceChannelID
Users    == { DMUserID, "player" }
Channels == { "", DNDVoiceChannelID, "other" }    \* "" is no channel

\* the updates Discord can send while the DM is in channel c: BeforeUpdate is
\* nil ("nil") or holds the channel the user was in
Updates(c) ==
  { [user |-> DMUserID, before |-> b, channel |-> a] :
      b \in (IF c = "" THEN {"nil", ""} ELSE {c}), a \in Channels } \cup
  { [user |-> "player", before |-> b, channel |-> a] :
      b \in ({"nil"} \cup Channels), a \in Channels }

previousChannelID(u) == IF u.before = "nil" THEN "" ELSE u.before

\* onVoiceStateUpdate without the test that the channel changed
ChannelChangedAlways(u) == TRUE

\* "only act if the channel actually changed, not on mute/unmute"
ChannelChanged(u) == u.channel # previousChannelID(u)

\* what onVoiceStateUpdate calls for the update u
Decision(u) ==
  IF u.user # DMUserID THEN "none"
  ELSE IF ~ChannelChanged(u) THEN "none"
  ELSE IF u.channel = DNDVoiceChannelID THEN "join"
  ELSE IF previousChannelID(u) = DNDVoiceChannelID THEN "leave"
  ELSE "none"

InitBot ==
  /\ InitProc
  /\ IdleClassify
  /\ IdleSend
  /\ IdleAux
  /\ IdleRuns
  /\ IdleConv
  /\ dmChannel \in Channels
  /\ botVoice = ""
  /\ vsu = NoUpdate
  /\ botAction = [h \in Handlers |-> NoHandler]
  /\ botEvents = 0

botRest == <<sessionVars, clsVars, runVars, convVars, sndVars, auxExceptShut>>

\* a goroutine of the bot inside joinVoiceChannel, leaveVoiceChannel,
\* checkDMInVoiceChannelAsync or Stop: what it runs, the channel it joins,
\* the statement it is at
Handler(kind, channelID, pc) == [kind |-> kind, channel |-> channelID, pc |-> pc]

\* b.session.Close() has returned: Discord delivers no more events
SessionClosed == \E h \in Handlers : botAction[h].pc = "closed"

\* an event of the session is delivered and its handler starts in a goroutine
\* of its own, the n-th event in goroutine n
Delivered ==
  /\ ~SessionClosed
  /\ botEvents < MaxEvents
  /\ botEvents' = botEvents + 1

\* onVoiceStateUpdate up to the call of joinVoiceChannel or leaveVoiceChannel
onVoiceStateUpdate ==
  /\ Delivered
  /\ \E u \in Updates(dmChannel) :
       /\ vsu' = u
       /\ dmChannel' = IF u.user = DMUserID THEN u.channel ELSE dmChannel
       /\ botAction' =
            IF Decision(u) = "join"
            THEN [botAction EXCEPT ![botEvents + 1] = Handler("join", u.channel, "join")]
            ELSE IF Decision(u) = "leave"
            THEN [botAction EXCEPT ![botEvents + 1] = Handler("leave", "", "stop")]
            ELSE botAction
  /\ UNCHANGED <<botVoice, isProcessing, voiceConnection, mutex, speechClosed, botRest>>

\* onMessageCreate with the join command of a user who is in voice channel c
\* (handleJoinCommand), or with the leave command (handleLeaveCommand)
onMessageCreate ==
  /\ Delivered
  /\ \/ \E c \in Channels \ {""} :
          botAction' = [botAction EXCEPT ![botEvents + 1] = Handler("join", c, "join")]
     \/ botAction' = [botAction EXCEPT ![botEvents + 1] = Handler("leave", "", "stop")]
  /\ vsu' = NoUpdate
  /\ UNCHANGED <<dmChannel, botVoice, isProcessing, voiceConnection, mutex,
                 speechClosed, botRest>>

\* onReady: go b.checkDMInVoiceChannelAsync(), when the session has connected
onReady ==
  /\ Delivered
  /\ botEvents = 0
  /\ botAction' = [botAction EXCEPT ![1] = Handler("ready", "", "check")]
  /\ vsu' = NoUpdate
  /\ UNCHANGED <<dmChannel, botVoice, isProcessing, voiceConnection, mutex,
                 speechClosed, botRest>>

\* checkDMInVoiceChannelAsync after the startup delay.  isTargetChannelInGuild
\* asks Discord for the target channel (b.session.Channel), which may fail or
\* name another guild: the guild is then skipped and nothing is joined.
\* isDMInTargetChannel reads the voice states of the session, which hold the
\* channel of the last delivered update (dmChannel).
checkDMInVoiceChannelAsync(h) ==
  /\ botAction[h].pc = "check"
  /\ \E isTargetChannelInGuild \in BOOLEAN :
       botAction' = [botAction EXCEPT ![h] =
                       IF isTargetChannelInGuild /\ dmChannel = DNDVoiceChannelID
                       THEN Handler("ready", DNDVoiceChannelID, "join")
                       ELSE NoHandler]
  /\ UNCHANGED <<dmChannel, botVoice, vsu, botEvents, isProcessing, voiceConnection,
                 mutex, speechClosed, botRest>>

\* joinVoiceChannel(guildID, channelID): ChannelVoiceJoin, which may fail
joinVoiceChannel(h) ==
  /\ botAction[h].pc = "join"
  /\ \E joined \in BOOLEAN :
       IF joined
       THEN /\ botVoice' = botAction[h].channel
            /\ botAction' = [botAction EXCEPT ![h].pc = "start"]
       ELSE /\ botAction' = [botAction EXCEPT ![h] = NoHandler]
            /\ UNCHANGED botVoice
  /\ UNCHANGED <<dmChannel, vsu, botEvents, isProcessing, voiceConnection, mutex,
                 speechClosed, botRest>>

\* joinVoiceChannel: b.audioProcessor.StartProcessing(vc), which waits for
\* p.mutex and only reports an error when processing is already on
joinStartProcessing(h) ==
  /\ botAction[h].pc = "start"
  /\ mutex = "free"
  /\ isProcessing' = TRUE
  /\ voiceConnection' = TRUE
  /\ botAction' = [botAction EXCEPT ![h] = NoHandler]
  /\ UNCHANGED <<dmChannel, botVoice, vsu, botEvents, mutex, speechClosed, botRest>>

\* the statement after StopProcessing: the Disconnect of leaveVoiceChannel, or
\* b.speechService.Close() of Stop
AfterStop(h) == IF botAction[h].kind = "shutdown" THEN "speech" ELSE "disconnect"

\* leaveVoiceChannel and Stop: b.audioProcessor.StopProcessing() takes p.mutex;
\* it returns at once when processing is off, otherwise it clears the flag and
\* the connection and goes on to its final flush
botStopProcessing(h) ==
  /\ botAction[h].pc = "stop"
  /\ mutex = "free"
  /\ IF ~isProcessing
     THEN /\ botAction' = [botAction EXCEPT ![h].pc = AfterStop(h)]
          /\ UNCHANGED <<isProcessing, voiceConnection, mutex>>
     ELSE /\ mutex' = "stop"
          /\ isProcessing' = FALSE
          /\ voiceConnection' = FALSE
          /\ botAction' = [botAction EXCEPT ![h].pc = "flush"]
  /\ UNCHANGED <<dmChannel, botVoice, vsu, botEvents, speechClosed, botRest>>

\* StopProcessing has sent the buffers to the recognizer and returns
botStopReturn(h) ==
  /\ botAction[h].pc = "flush"
  /\ mutex' = "free"
  /\ botAction' = [botAction EXCEPT ![h].pc = AfterStop(h)]
  /\ UNCHANGED <<dmChannel, botVoice, vsu, botEvents, isProcessing, voiceConnection,
                 speechClosed, botRest>>

\* leaveVoiceChannel: Disconnect of the guild's voice connection, if there is
\* one; it may fail
leaveVoiceChannel(h) ==
  /\ botAction[h].pc = "disconnect"
  /\ botAction[h].kind = "leave"
  /\ \E disconnected \in BOOLEAN :
       botVoice' = IF disconnected THEN "" ELSE botVoice
  /\ botAction' = [botAction EXCEPT ![h] = NoHandler]
  /\ UNCHANGED <<dmChannel, vsu, botEvents, isProcessing, voiceConnection, mutex,
                 speechClosed, botRest>>

\* Bot.Stop is called by the main goroutine
BotStop ==
  /\ botEvents < MaxEvents
  /\ \A h \in Handlers : botAction[h].kind # "shutdown"
  /\ botEvents' = botEvents + 1
  /\ botAction' = [botAction EXCEPT ![botEvents + 1] = Handler("shutdown", "", "stop")]
  /\ vsu' = NoUpdate
  /\ UNCHANGED <<dmChannel, botVoice, isProcessing, voiceConnection, mutex,
                 speechClosed, botRest>>

\* Bot.Stop: b.speechService.Close() if there is a speech service
BotStopSpeech(h) ==
  /\ botAction[h].pc = "speech"
  /\ speechClosed' = (speechClosed \/ speechService)
  /\ botAction' = [botAction EXCEPT ![h].pc = "disconnect"]
  /\ UNCHANGED <<dmChannel, botVoice, vsu, botEvents, isProcessing, voiceConnection,
                 mutex, botRest>>

\* Bot.Stop: vc.Disconnect() for every voice connection, the result ignored;
\* the session is still open and goes on delivering events
BotStopDisconnect(h) ==
  /\ botAction[h].pc = "disconnect"
  /\ botAction[h].kind = "shutdown"
  /\ \E disconnected \in BOOLEAN :
       botVoice' = IF disconnected THEN "" ELSE botVoice
  /\ botAction' = [botAction EXCEPT ![h].pc = "session"]
  /\ UNCHANGED <<dmChannel, vsu, botEvents, isProcessing, voiceConnection, mutex,
                 speechClosed, botRest>>

\* Bot.Stop: b.session.Close(), its result only logged, and the return to main
BotStopSession(h) ==
  /\ botAction[h].pc = "session"
  /\ botAction' = [botAction EXCEPT ![h].pc = "closed"]
  /\ UNCHANGED <<dmChannel, botVoice, vsu, botEvents, isProcessing, voiceConnection,
                 mutex, speechClosed, botRest>>

NextBot ==
  \/ onReady
  \/ onVoiceStateUpdate
  \/ onMessageCreate
  \/ BotStop
  \/ \E h \in Handlers : checkDMInVoiceChannelAsync(h)
  \/ \E h \in Handlers : joinVoiceChannel(h)
  \/ \E h \in Handlers : joinStartProcessing(h)
  \/ \E h \in Handlers : botStopProcessing(h)
  \/ \E h \in Handlers : botStopReturn(h)
  \/ \E h \in Handlers : leaveVoiceChannel(h)
  \/ \E h \in Handlers : BotStopSpeech(h)
  \/ \E h \in Handlers : BotStopDisconnect(h)
  \/ \E h \in Handlers : BotStopSession(h)

SpecBot == InitBot /\ [][NextBot]_vars

\* --------------------------------------------------------------- C19
\* the update says the DM came into the D&D channel from elsewhere, or went
\* from the D&D channel to another channel or to none
DMEntered(u) ==
  /\ u.user = "dm" /\ u.channel = "dnd"
  /\ ~(u.before = "dnd")
DMLeft(u) ==
  /\ u.user = "dm" /\ u.before = "dnd"
  /\ u.channel # "dnd"

\* a voice-state update is delivered in this step; its handler is goroutine
\* botEvents'
UpdateDelivered == botEvents' = botEvents + 1 /\ vsu' # NoUpdate

\* goroutine h has been started by the update delivered in this step
StartedAs(h, kind) == botAction[h] = NoHandler /\ botAction'[h].kind = kind

\* C19: the handler of a voice-state update calls joinVoiceChannel exactly
\* when the DM's channel changed to the D&D channel, and leaveVoiceChannel
\* exactly when the DM's channel changed from the D&D channel to another or
\* none; every other update (another user, or the DM's channel unchanged)
\* calls neither and leaves voice connection and audio processing as they
\* were.  The join then calls ChannelVoiceJoin for the D&D channel and, unless
\* Discord refuses, StartProcessing, after which audio processing is on; the
\* leave calls StopProcessing, after which audio processing is off, and then
\* disconnects.
C19_JoinAndLeave ==
  /\ [][ UpdateDelivered =>
           /\ StartedAs(botEvents', "join") <=> DMEntered(vsu')
           /\ StartedAs(botEvents', "leave") <=> DMLeft(vsu')
           /\ (~DMEntered(vsu') /\ ~DMLeft(vsu')) => botAction' = botAction
           /\ StartedAs(botEvents', "join") =>
                botAction'[botEvents'] = Handler("join", "dnd", "join")
           /\ UNCHANGED <<botVoice, isProcessing, voiceConnection>>
       ]_vars
  /\ [][ \A h \in Handlers :
           /\ (botAction[h].pc = "join" /\ botAction'[h].pc = "start") =>
                botVoice' = botAction[h].channel
           /\ (botAction[h].pc = "start" /\ botAction'[h].pc # "start") =>
                isProcessing'
           /\ (botAction[h].pc = "stop" /\ botAction'[h].pc # "stop") =>
                ~isProcessing'
           /\ (botAction[h].kind = "leave" /\ botAction[h].pc = "disconnect"
                 /\ botAction'[h].pc # "disconnect") =>
                botVoice' \in {"", botVoice}
       ]_vars

\* C19 witness: the DM came into the D&D channel, the handler of that update
\* has joined and started audio processing; then a mute/unmute of the DM
\* inside the D&D channel was delivered and started nothing.
C19_Witness ==
  /\ vsu = [user |-> "dm", before |-> "dnd", channel |-> "dnd"]
  /\ \A h \in Handlers : botAction[h] = NoHandler
  /\ botVoice = "dnd" /\ isProcessing
  /\ botEvents = 2

\* ---------------------------------------------------------------- C21
\* some recognizer invocation has been made and has not returned
CallInProgress == \E i \in 1..Len(calls) : calls[i].pending

\* C21: p.mutex is never held while a recognizer call is in progress, so that
\* IsProcessing and StartProcessing (which take p.mutex) never wait for a
\* recognizer call, the calls of the final flush of StopProcessing included.
C21_LockFreeDuringCall == CallInProgress => mutex = "free"

\* ---------------------------------------------------------------- C22
\* source t has crossed the silence threshold with audio in its buffer
Overdue(t) ==
  /\ lastPacketTime[t] # NoTime
  /\ IsSilent(now, lastPacketTime[t])
  /\ oggBuffers[t] # NoObj
  /\ Len(bufData[oggBuffers[t]]) > 0

\* C22: the silence detector never waits for a recognizer call: while a call
\* it made for one source is outstanding and another source has crossed the
\* silence threshold, the detector is ticking or scanning, not inside the call.
C22_DetectorNeverBlocks ==
  \A i \in Outstanding("detector") :
    \A t \in Sources \ { calls[i].ssrc } :
      Overdue(t) => detPc \in { "wait", "now", "range", "scan", "lookup", "send" }

\* ---------------------------------------------------------------- C24
\* C24: the detector flushes a source only if, when the buffer is taken, the
\* last voice packet of the source is older than the silence threshold and the
\* buffer is not empty; a source whose buffer is empty is skipped without a
\* recognizer call.
C24_FlushOnlyAfterSilence ==
  [][ /\ DetectorTakesBuffer =>
           /\ lastPacketTime[detSsrc] # NoTime
           /\ IsSilent(now, lastPacketTime[detSsrc])
           /\ Len(bufData[detBuf]) > 0
      /\ (detPc = "send" /\ detPc' # "send" /\ NothingToSend(detSsrc)) =>
           (calls' = calls /\ detPc' # "bytes")
    ]_vars

\* ---------------------------------------------------------------- C25
\* C25: every batch handed to the recognizer starts with the header page of its
\* own stream, the second and later batches of a source like the first.
C25_BatchHasHeader ==
  \A i \in 1..Len(calls) :
    /\ Len(calls[i].items) > 0
    /\ calls[i].items[1] = HeaderPage(calls[i].ssrc)

\* ---------------------------------------------------------------- C26
\* processAudioPacket handles a silence-marker packet in this step
SilenceMarkerHandled ==
  ingPc = "proc" /\ ingPc' # ingPc /\ ingPkt.opus = SilencePayload

\* C26: a silence-marker packet only increments the two counters.  No session
\* is created and every source's writer, buffer and last-packet time are left
\* as they are, so every source is as overdue for the detector after the marker
\* as it was before it; no recognizer call is made.
C26_SilenceOnlyCounts ==
  [][ SilenceMarkerHandled =>
        /\ packetsReceived' = packetsReceived + 1
        /\ silenceDetections' = silenceDetections + 1
        /\ UNCHANGED <<oggFiles, oggBuffers, lastPacketTime, bufData, wrClosed,
                       nextObj, calls, appended, debugFiles>>
        /\ \A t \in Sources : Overdue(t)' = Overdue(t)
        /\ ingPc' = "recv"
    ]_vars

\* C26 witness: a source sent one voice packet and then a silence marker
\* arrived (packet 2); the detector flushes the source once its voice packet
\* is older than the threshold.
C26_Witness ==
  /\ appended = {1}
  /\ fed = MaxPackets /\ packetsReceived = MaxPackets /\ silenceDetections = 1
  /\ \E i \in Outstanding("detector") :
       /\ PacketsOf(calls[i].items) = {1}
       /\ IsSilent(now, lastPacketTime[calls[i].ssrc])

\* ---------------------------------------------------------------- C23
\* a step of the ingestion loop: a packet is received, or processAudioPacket
\* advances
IngestionStep ==
  /\ ingPc \in { "recv", "proc", "files", "buffers", "time", "write" }
  /\ (ingPc' # ingPc \/ fed' # fed)

\* C23: handling a packet in the ingestion loop does no container encoding (no
\* byte is put into an OGG buffer) and invokes no recognizer; an outstanding
\* recognizer call never keeps the loop from receiving the next packet.
C23_NoEncodingInIngestion ==
  /\ [][IngestionStep => UNCHANGED <<bufData, calls, lastOut, debugFiles>>]_vars
  /\ []((CallInProgress /\ ingPc = "recv" /\ fed < MaxPackets) => ENABLED IngestRecv)

\* -------------------------------------------- sendBufferToGoogle on its own
\* One call of sendBufferToGoogle(ssrc), statement by statement: svc is
\* p.speechService # nil, exists and buffer are what p.oggBuffers[ssrc] yields
\* when the call starts, out is what RecognizeAudio returns if it is called.
\* The caller holds no lock that the ingestion loop or another flush would
\* wait for, so the buffer can change between any two statements.
SendBuffers(s) ==
  { <<>>,
    <<HeaderPage(s)>>,
    <<HeaderPage(s), DataPage(Packet(1, s, VoicePayload))>>,
    <<DataPage(Packet(1, s, VoicePayload))>> }

SendInputs ==
  UNION { [svc : BOOLEAN, ssrc : {s}, exists : BOOLEAN, buffer : SendBuffers(s),
           out : RecognizeOutcomes] : s \in Sources }

\* a transcription line is printed whatever RecognizeAudio returned
EmitsAlways(out) == TRUE

\* the transcription line is printed in the branch err == nil, if result # nil
Emits(out) == out = "ok"

\* what the call has done so far.  pc: the statement it is at; called:
\* RecognizeAudio was invoked, with the bytes `sent`; printed: the sources a
\* [TRANSCRIPTION] line was printed for; files: the debug files written;
\* bufferAfter: the buffer as it is now; timeSet: p.lastPacketTime[ssrc] was
\* set; touched: another goroutine has written to or reset the buffer
InitSend ==
  /\ InitProc
  /\ IdleClassify
  /\ IdleRuns
  /\ IdleConv
  /\ IdleBot
  /\ sndIn \in { in \in SendInputs : in.svc = speechService }
  /\ sndOut = [NotSent EXCEPT !.bufferAfter = sndIn.buffer]
  /\ IdleAux

sendRest == <<procVars, clsVars, runVars, convVars, botVars, sndIn, auxVars>>

\* the test of p.speechService, the lookup in p.oggBuffers and the test of
\* buffer.Len()
SendTest ==
  /\ sndOut.pc = "test"
  /\ sndOut' = IF ~sndIn.svc \/ ~sndIn.exists \/ Len(sndOut.bufferAfter) = 0
               THEN [sndOut EXCEPT !.pc = "done", !.done = TRUE]
               ELSE [sndOut EXCEPT !.pc = "bytes"]
  /\ UNCHANGED sendRest

\* p.speechService.RecognizeAudio(buffer.Bytes()) is called
SendBytes ==
  /\ sndOut.pc = "bytes"
  /\ sndOut' = [sndOut EXCEPT !.pc = "call", !.called = TRUE, !.sent = sndOut.bufferAfter]
  /\ UNCHANGED sendRest

\* RecognizeAudio returns: after an error writeDebugFile(ssrc, buffer.Bytes()),
\* otherwise the transcription line if there is a result
SendReturn ==
  /\ sndOut.pc = "call"
  /\ \E w \in WriteOutcomes :
       sndOut' = [sndOut EXCEPT
                    !.pc = "reset",
                    !.printed = IF Emits(sndIn.out) THEN { sndIn.ssrc } ELSE {},
                    !.files = IF sndIn.out = "err"
                              THEN writeDebugFile({}, sndIn.ssrc, sndOut.bufferAfter, w, now)
                              ELSE {}]
  /\ UNCHANGED sendRest

\* buffer.Reset()
SendReset ==
  /\ sndOut.pc = "reset"
  /\ sndOut' = [sndOut EXCEPT !.pc = "stamp", !.bufferAfter = <<>>]
  /\ UNCHANGED sendRest

\* p.lastPacketTime[ssrc] = time.Now(), and the return
SendStamp ==
  /\ sndOut.pc = "stamp"
  /\ sndOut' = [sndOut EXCEPT !.pc = "done", !.timeSet = TRUE, !.done = TRUE]
  /\ UNCHANGED sendRest

\* meanwhile processAudioPacket writes the page of a further packet of the
\* source to the buffer (oggFile.WriteRTP)
SendOtherWrite ==
  /\ ~sndOut.done /\ ~sndOut.touched
  /\ sndIn.exists
  /\ sndOut' = [sndOut EXCEPT
                  !.touched = TRUE,
                  !.bufferAfter = WritePage(@, Packet(2, sndIn.ssrc, VoicePayload))]
  /\ UNCHANGED sendRest

\* meanwhile another call of sendBufferToGoogle for the source (the detector's
\* or that of StopProcessing) reaches its buffer.Reset()
SendOtherReset ==
  /\ ~sndOut.done /\ ~sndOut.touched
  /\ sndIn.exists
  /\ sndOut' = [sndOut EXCEPT !.touched = TRUE, !.bufferAfter = <<>>]
  /\ UNCHANGED sendRest

NextSend ==
  \/ SendTest
  \/ SendBytes
  \/ SendReturn
  \/ SendReset
  \/ SendStamp
  \/ SendOtherWrite
  \/ SendOtherReset

SpecSend == InitSend /\ [][NextSend]_vars

\* ---------------------------------------------------------------- C27
\* C27: a transcription line is printed for a source only by a call of
\* sendBufferToGoogle for that source in which RecognizeAudio was invoked for
\* the source's buffer and has returned a result without error; a failed call
\* prints nothing, and nothing is printed when no batch was sent.
C27_EmittedOnlyOnSuccess ==
  /\ sndOut.printed \subseteq { sndIn.ssrc }
  /\ sndOut.printed # {} =>
       /\ sndOut.called
       /\ sndOut.pc \in { "reset", "stamp", "done" }
       /\ sndIn.svc /\ sndIn.exists
       /\ sndIn.out = "ok"
  /\ (sndOut.called /\ sndIn.out = "err") => sndOut.printed = {}
  /\ ~sndOut.called => sndOut.printed = {}

\* C27 witness: a batch of source 2 was recognized and its line printed
C27_Witness ==
  /\ sndOut.done
  /\ sndOut.printed = {2}
  /\ Len(sndOut.sent) > 0
  /\ sndIn.out = "ok"

\* ---------------------------------------------------------------- C28
\* C28: when RecognizeAudio returns neither an error nor a result for a batch,
\* the batch is handled like a failed one: its bytes are written to a debug
\* file, no second call is made for it (the buffer is emptied) and the call of
\* sendBufferToGoogle returns.
C28_EmptyResultFiled ==
  (sndOut.done /\ sndOut.called /\ sndIn.out = "nil" /\ ~sndOut.touched) =>
     /\ \E f \in sndOut.files : f.data = sndOut.sent
     /\ sndOut.bufferAfter = <<>>

\* ---------------------------------------------------------------- C29
\* a nil packet or a packet with an empty payload is dropped in this step: by
\* the loop of processAudioPackets (nil) or at the head of processAudioPacket
EmptyPacketDropped ==
  \/ ingPc = "recv" /\ ingPc' = "recv" /\ fed' = fed + 1
  \/ ingPc = "proc" /\ Len(ingPkt.opus) = 0 /\ ingPc' = "recv"

\* C29: a nil packet or a packet with an empty payload is dropped without any
\* change of session state (no session is created, no buffer and no
\* last-packet time changes), and the drop is counted by the processor.
C29_EmptyDroppedAndCounted ==
  [][ EmptyPacketDropped =>
        /\ UNCHANGED <<oggFiles, oggBuffers, lastPacketTime, bufData, wrClosed,
                       nextObj, calls, appended>>
        /\ \/ packetsReceived' = packetsReceived + 1
           \/ silenceDetections' = silenceDetections + 1
    ]_vars

\* ---------------------------------------------------------------- C30
\* processAudioPacket gives up on a voice packet of a source without a session
\* in this step: oggwriter.NewWith returned an error
WriterCreationFailed ==
  /\ ingPc = "proc" /\ ingPc' = "recv"
  /\ Classify(ingPkt) = "Voice"
  /\ oggFiles[SessionKey(ingPkt)] = NoObj

\* C30: when the creation of the writer for a source without a session fails,
\* the packet is dropped and nothing is recorded for the source: no writer, no
\* buffer, no last-packet time, and the sessions of the other sources are as
\* they were; processAudioPacket goes on to record a session only with a
\* writer that was created.  The ingestion loop goes on to the next packet,
\* and a later voice packet of the source finds no session and creates one.
C30_FailedCreationLeavesNoSession ==
  /\ [][ WriterCreationFailed =>
           /\ oggFiles'[SessionKey(ingPkt)] = NoObj
           /\ UNCHANGED <<oggFiles, oggBuffers, lastPacketTime, bufData, wrClosed,
                          nextObj, appended, calls>>
           /\ ingPkt' = NoPacket
       ]_vars
  /\ [][ (ingPc = "proc" /\ ingPc' = "files") =>
           (nextObj' = nextObj + 1 /\ ingFile' = nextObj /\ ~wrClosed[nextObj]) ]_vars
  /\ []( (ingPc = "proc" /\ Classify(ingPkt) = "Voice"
            /\ oggFiles[SessionKey(ingPkt)] = NoObj)
         => ENABLED ( /\ IngestProc
                      /\ ingPc' = "files"
                      /\ nextObj' = nextObj + 1 ) )
  /\ []( ingPc = "files" => ENABLED ( /\ IngestFiles
                                      /\ oggFiles'[SessionKey(ingPkt)] # NoObj ) )
  /\ []( (ingPc = "recv" /\ fed < MaxPackets) => ENABLED IngestRecv )

\* C30 witness: two voice packets were processed and StopProcessing was never
\* called; the first was dropped because the creation of its writer failed,
\* the second found no session, created the only one there is and was written.
C30_Witness ==
  /\ stopCalls = 0
  /\ fed = MaxPackets /\ packetsReceived = MaxPackets /\ silenceDetections = 0
  /\ appended = {MaxPackets}
  /\ nextObj = 2
  /\ Cardinality(Keys(oggFiles)) = 1
  /\ Keys(oggBuffers) = Keys(oggFiles)

\* ============================================= packets arriving out of order
\* One run of the processor in which the transport delivers the packets in any
\* order of their sequence numbers; the buffers are flushed by StopProcessing.
Orders ==
  { f \in [1..MaxPackets -> 1..MaxPackets] :
      \A a, b \in 1..MaxPackets : f[a] = f[b] => a = b }

InitOrder ==
  /\ InitProc
  /\ IdleClassify
  /\ IdleRuns
  /\ IdleConv
  /\ IdleBot
  /\ sndIn = NoSend
  /\ sndOut = NotSent
  /\ IdleExceptOrder
  /\ seqOrder \in Orders

NextOrder ==
  \/ StartProcessing
  \/ IngestInit
  \/ IngestRange
  \/ IngestRecv
  \/ IngestProc
  \/ IngestFiles
  \/ IngestBuffers
  \/ IngestTime
  \/ IngestWrite
  \/ StopBegin
  \/ StopSend
  \/ StopBytes
  \/ StopReturn
  \/ StopReset
  \/ StopStamp
  \/ StopRange
  \/ StopCloseWriter
  \/ StopFiles
  \/ StopBuffers
  \/ StopTimes

SpecOrder == InitOrder /\ [][NextOrder]_vars

\* ---------------------------------------------------------------- C31
\* the pages of items are in the order in which their packets were received
\* (seq numbers the packets in that order)
InArrivalOrder(items) ==
  \A j, k \in 1..Len(items) :
    (j < k /\ items[j].seq # 0 /\ items[k].seq # 0) => items[j].seq < items[k].seq

\* C31: in every buffer and in every batch handed to the recognizer the packets
\* are in the order in which they were received; a packet with a lower
\* sequence number that arrived later stands after the earlier arrivals.
C31_ArrivalOrderKept ==
  /\ \A o \in Objs : InArrivalOrder(bufData[o])
  /\ \A i \in 1..Len(calls) : InArrivalOrder(calls[i].items)

\* C31 witness: a batch in which a packet is followed by one with a lower
\* sequence number
C31_Witness ==
  \E i \in 1..Len(calls) :
    \E j, k \in 1..Len(calls[i].items) :
      /\ j < k
      /\ calls[i].items[j].seq # 0
      /\ PageSequence(calls[i].items[j]) > PageSequence(calls[i].items[k])

\* ================================================== trimMessages on its own
\* cm.messages before a call of trimMessages: up to two messages more than
\* maxMessages, the i-th with text i
TrimInputs ==
  UNION { { [i \in 1..k |-> [role |-> r[i], content |-> <<Line("old", i)>>]] :
              r \in [1..k -> {"user", "assistant"}] } :
          k \in 0..(maxMessages + 2) }

InitTrim ==
  /\ InitProc
  /\ IdleClassify
  /\ IdleRuns
  /\ IdleConv
  /\ IdleBot
  /\ sndIn = NoSend
  /\ sndOut = NotSent
  /\ IdleExceptTrim
  /\ trmIn \in TrimInputs
  /\ trmOut = NotTrimmed

TrimStep ==
  /\ ~trmOut.done
  /\ trmOut' = [done |-> TRUE, messages |-> trimMessages(trmIn)]
  /\ UNCHANGED <<procVars, clsVars, runVars, convVars, botVars, sndVars, auxExceptTrim, trmIn>>

SpecTrim == InitTrim /\ [][TrimStep]_vars

\* ---------------------------------------------------------------- C32
\* floor(3 * maxMessages / 4)
KeptAfterTrim ==
  CHOOSE k \in 0..(3 * maxMessages) :
    4 * k <= 3 * maxMessages /\ 3 * maxMessages < 4 * (k + 1)

\* C32: when cm.messages holds more than maxMessages messages, trimMessages
\* removes the oldest ones: what is left are the last floor(3*maxMessages/4)
\* messages in their order; when it holds at most maxMessages, nothing is
\* removed.
C32_TrimIsFifo ==
  trmOut.done =>
    LET n == Len(trmIn)
        out == trmOut.messages
    IN  /\ n <= maxMessages => out = trmIn
        /\ n > maxMessages =>
             /\ Len(out) = KeptAfterTrim
             /\ \A i \in 1..Len(out) : out[i] = trmIn[n - Len(out) + i]

\* C32 witness: a conversation of maxMessages + 2 messages was trimmed and
\* ends with its last message
C32_Witness ==
  /\ trmOut.done
  /\ Len(trmIn) = maxMessages + 2
  /\ Len(trmOut.messages) > 0
  /\ Len(trmOut.messages) < Len(trmIn)
  /\ trmOut.messages[Len(trmOut.messages)] = trmIn[Len(trmIn)]

\* =============================================== StartProcessing on its own
\* One call of StartProcessing(vc), which runs under p.mutex from its first to
\* its last statement.  The maps are given by their sets of keys.
MaxCount == 2      \* the counters of the processor before the call

\* the processor before the call: processing on with the connection of the
\* running session, or off with no connection; in both cases any sessions and
\* counter values (after StopProcessing the counters keep their values, and
\* the ingestion loop can still add a session)
StartInputs ==
  { [ p |-> ProcessorFields(active, IF active THEN 1 ELSE 0, K, K, K, r, d,
                            IF active THEN 1 ELSE l),
      vc |-> 2 ] :
      active \in BOOLEAN, K \in SUBSET Sources, r \in 0..MaxCount,
      d \in 0..MaxCount, l \in 0..1 }

\* StartProcessing without the test of p.isProcessing
AlreadyStartedNever(p) == FALSE

\* the early return of StartProcessing
AlreadyStarted(p) == p.isProcessing

\* StartProcessing(vc) on processor p: the error returned and the processor
\* afterwards
StartProcessingCall(p, vc) ==
  IF AlreadyStarted(p)
  THEN [done |-> TRUE, err |-> TRUE, p |-> p]
  ELSE [done |-> TRUE, err |-> FALSE,
        p |-> ProcessorFields(TRUE, vc, {}, {}, {}, 0, 0, p.loops + 1)]

InitStart ==
  /\ InitProc
  /\ IdleClassify
  /\ IdleRuns
  /\ IdleConv
  /\ IdleBot
  /\ sndIn = NoSend
  /\ sndOut = NotSent
  /\ IdleExceptStart
  /\ stIn \in StartInputs
  /\ stOut = NotStarted

StartStep ==
  /\ ~stOut.done
  /\ stOut' = StartProcessingCall(stIn.p, stIn.vc)
  /\ UNCHANGED <<procVars, clsVars, runVars, convVars, botVars, sndVars, auxExceptStart, stIn>>

SpecStart == InitStart /\ [][StartStep]_vars

\* ---------------------------------------------------------------- C33
\* C33: StartProcessing called while processing is on returns an error and
\* changes nothing: the voice connection, the sessions, the buffers and the
\* counters are as before and no goroutine is started.  Called while
\* processing is off it returns no error, sets processing on with the new
\* connection, empties the three maps, resets the counters and starts the
\* ingestion loop and the silence detector once.
C33_StartOnlyWhenInactive ==
  stOut.done =>
    IF stIn.p.isProcessing
    THEN /\ stOut.err
         /\ stOut.p.isProcessing
         /\ stOut.p.voiceConnection = stIn.p.voiceConnection
         /\ stOut.p.oggFiles = stIn.p.oggFiles
         /\ stOut.p.oggBuffers = stIn.p.oggBuffers
         /\ stOut.p.lastPacketTime = stIn.p.lastPacketTime
         /\ stOut.p.packetsReceived = stIn.p.packetsReceived
         /\ stOut.p.silenceDetections = stIn.p.silenceDetections
         /\ stOut.p.loops = stIn.p.loops
    ELSE /\ ~stOut.err
         /\ stOut.p.isProcessing
         /\ stOut.p.voiceConnection = stIn.vc
         /\ stOut.p.oggFiles = {} /\ stOut.p.oggBuffers = {}
         /\ stOut.p.lastPacketTime = {}
         /\ stOut.p.packetsReceived = 0 /\ stOut.p.silenceDetections = 0
         /\ stOut.p.loops = stIn.p.loops + 1

\* C33 witness: StartProcessing was called while a session with buffered audio
\* and counted packets was running, and reported the error
C33_Witness ==
  /\ stOut.done /\ stOut.err
  /\ stIn.p.isProcessing
  /\ stIn.p.oggFiles = Sources
  /\ stIn.p.packetsReceived = MaxCount
  /\ stOut.p = stIn.p

\* ============================================================== Bot.Stop
\* Bot.Stop with the goroutines of the processor going on as in Spec, a
\* StartProcessing of a join handler included.
\* Bot.Stop: b.audioProcessor.StopProcessing() returns, at once when it finds
\* processing off under p.mutex, or as the call whose steps are StopBegin to
\* StopTimes, which leave processing off and p.mutex free.  Stop goes on to
\* the speech service without a lock: BotStopSpeech tests nothing.
BotStopProcessing ==
  /\ botAction[1] = NoHandler
  /\ mutex = "free" /\ stopPc = "idle"
  /\ AlreadyStopped
  /\ botAction' = [botAction EXCEPT ![1] = Handler("shutdown", "", "speech")]
  /\ UNCHANGED <<procVars, clsVars, runVars, convVars, sndVars, auxVars,
                 dmChannel, botVoice, vsu, botEvents>>

\* Bot.Stop has returned to main, which returns: the process has ended
Exited == botAction[1].pc = "closed"

\* a step of the processor while the process is alive
Alive(step) == ~Exited /\ step /\ fed' <= MaxShutPackets

NextStop ==
  \/ Alive(StartProcessing)
  \/ Alive(IngestInit)
  \/ Alive(IngestRange)
  \/ Alive(IngestRecv)
  \/ Alive(IngestProc)
  \/ Alive(IngestFiles)
  \/ Alive(IngestBuffers)
  \/ Alive(IngestTime)
  \/ Alive(IngestWrite)
  \/ Alive(DetTick)
  \/ Alive(DetNow)
  \/ Alive(DetRange)
  \/ Alive(DetCheck)
  \/ Alive(DetLookup)
  \/ Alive(DetSend)
  \/ Alive(DetBytes)
  \/ Alive(DetReturn)
  \/ Alive(DetReset)
  \/ Alive(DetStamp)
  \/ Alive(StopBegin)
  \/ Alive(StopSend)
  \/ Alive(StopBytes)
  \/ Alive(StopReturn)
  \/ Alive(StopReset)
  \/ Alive(StopStamp)
  \/ Alive(StopRange)
  \/ Alive(StopCloseWriter)
  \/ Alive(StopFiles)
  \/ Alive(StopBuffers)
  \/ Alive(StopTimes)
  \/ BotStopProcessing
  \/ BotStopSpeech(1)
  \/ BotStopDisconnect(1)
  \/ BotStopSession(1)

SpecStop == Init /\ [][NextStop]_vars

\* ---------------------------------------------------------------- C34
\* C34: when Bot.Stop closes the speech service, processing is off and the
\* final flush of StopProcessing has returned; once the service is closed no
\* recognizer call is in flight and none is started.
C34_NoCallAfterClose ==
  /\ [][ (~speechClosed /\ speechClosed') =>
           (~isProcessing /\ Outstanding("stop") = {}) ]_vars
  /\ [](speechClosed => ~CallInProgress)
  /\ [][ speechClosed => Len(calls') = Len(calls) ]_vars

\* ---------------------------------------------------------------- C35
\* the messages of msgs that hold the line
Holders(msgs, line) ==
  { i \in 1..Len(msgs) : \E j \in 1..Len(msgs[i].content) : msgs[i].content[j] = line }

\* a call of FlushTranscriptions, or of AskQuestion, is this step
FlushCalled == cmOps' = cmOps + 1 /\ lastOp' \in {"flush", "flush_nosave", "flush_empty"}
AskCalled   == cmOps' = cmOps + 1 /\ lastOp' \in {"ask", "ask_nosave", "ask_failed"}

\* the pending transcriptions went into exactly one user message of the new
\* conversation, all of them and in the order of the buffer
PendingMoved ==
  /\ transcriptionBuf' = <<>>
  /\ \A k \in 1..Len(transcriptionBuf) :
       /\ Cardinality(Holders(messages', transcriptionBuf[k])) = 1
       /\ \A i \in Holders(messages', transcriptionBuf[k]) :
            messages'[i] = [role |-> "user", content |-> transcriptionBuf]

\* the lines of all messages and of the pending buffer, one after the other
AllLines ==
  LET RECURSIVE Flat(_)
      Flat(msgs) == IF msgs = <<>> THEN <<>>
                    ELSE Head(msgs).content \o Flat(Tail(msgs))
  IN  Flat(messages) \o transcriptionBuf

\* C35: FlushTranscriptions and AskQuestion put all pending transcriptions
\* into exactly one user message, in the order they were added, and leave the
\* pending buffer empty; no transcription is ever in two places (two messages,
\* or a message and the buffer); FlushTranscriptions with an empty buffer
\* changes neither the messages nor the buffer nor the file.
C35_PendingMovedOnce ==
  /\ [][ /\ ((FlushCalled \/ AskCalled) /\ Len(transcriptionBuf) > 0) => PendingMoved
         /\ (FlushCalled /\ Len(transcriptionBuf) = 0) =>
              UNCHANGED <<messages, transcriptionBuf, disk>>
       ]_vars
  /\ [](\A a, b \in 1..Len(AllLines) : AllLines[a] = AllLines[b] => a = b)

\* C35 witness: two transcriptions were flushed into the last message
C35_Witness ==
  /\ lastOp = "flush"
  /\ transcriptionBuf = <<>>
  /\ Len(messages) > 0
  /\ Len(messages[Len(messages)].content) = 2
  /\ messages[Len(messages)].content[1].tag = "[TRANSCRIPTION] SSRC"

\* ======================================= AskQuestion with concurrent callers
\* AskQuestion in two steps, before and after cm.service.SendMessage, with
\* AddTranscription and FlushTranscriptions called by other goroutines in
\* between.  Every method starts with cm.mutex.Lock(); AskQuestion unlocks
\* when it returns.
\* the methods run without looking at cm.mutex
CmLockIgnored == TRUE

\* cm.mutex.Lock() succeeds
CmLockFree == cmMutex = "free"

\* the ConversationManager after construction without a conversation file
InitAsk ==
  /\ InitProc
  /\ IdleClassify
  /\ IdleRuns
  /\ IdleBot
  /\ sndIn = NoSend
  /\ sndOut = NotSent
  /\ IdleExceptAsk
  /\ messages = <<>>
  /\ transcriptionBuf = <<>>
  /\ disk = NoFile
  /\ cmLoaded = TRUE
  /\ cmOps = 0
  /\ lastOp = "load"
  /\ pendingAge = 0
  /\ cmMutex = "free"
  /\ askQ = 0

askRest == <<procVars, clsVars, runVars, botVars, sndVars, auxExceptAsk>>

\* AskQuestion up to the call of cm.service.SendMessage
AskBegin ==
  /\ CmLockFree
  /\ cmOps < MaxOps
  /\ cmOps' = cmOps + 1
  /\ cmMutex' = "ask"
  /\ askQ' = cmOps + 1
  /\ LET flushed == IF Len(transcriptionBuf) > 0
                    THEN Append(messages, CreateUserMessage(JoinLines(transcriptionBuf)))
                    ELSE messages
     IN  messages' = Append(flushed, CreateUserMessage(<<Line("question", cmOps + 1)>>))
  /\ transcriptionBuf' = <<>>
  /\ pendingAge' = 0
  /\ UNCHANGED <<disk, cmLoaded, lastOp, askRest>>

\* SendMessage returns; AskQuestion appends the answer, trims, saves and
\* returns, or returns the error
AskReturn ==
  /\ cmMutex = "ask"
  /\ \E out \in AskOutcomes :
       IF out = "ok"
       THEN /\ messages' = trimMessages(Append(messages, CreateAssistantMessage(<<Line("answer", askQ)>>)))
            /\ \E w \in WriteOutcomes :
                 /\ disk' = saveToDisk(messages', w)
                 /\ lastOp' = IF w = "ok" THEN "ask" ELSE "ask_nosave"
       ELSE /\ lastOp' = "ask_failed"
            /\ UNCHANGED <<messages, disk>>
  /\ cmMutex' = "free"
  /\ askQ' = 0
  /\ UNCHANGED <<transcriptionBuf, cmLoaded, cmOps, pendingAge, askRest>>

\* AddTranscription and FlushTranscriptions called by another goroutine
ConcurrentAdd   == CmLockFree /\ AddTranscription
ConcurrentFlush == CmLockFree /\ FlushTranscriptions

NextAsk ==
  \/ AskBegin
  \/ AskReturn
  \/ ConcurrentAdd
  \/ ConcurrentFlush

SpecAsk == InitAsk /\ [][NextAsk]_vars

\* ---------------------------------------------------------------- C36
IsQuestion(m, q) == m = [role |-> "user", content |-> <<Line("question", q)>>]
IsAnswer(m, q)   == m = [role |-> "assistant", content |-> <<Line("answer", q)>>]

\* C36: with AddTranscription, FlushTranscriptions and AskQuestion called
\* concurrently, the answer of a successful AskQuestion stands directly after
\* its question in cm.messages: no message of another call is between them
\* (the question may later be the one removed by a trim).
C36_AnswerFollowsQuestion ==
  \A i \in 1..Len(messages) : \A q \in 1..MaxOps :
    IsAnswer(messages[i], q) => (i = 1 \/ IsQuestion(messages[i - 1], q))

\* C36 witness: an answer stands directly after its question, and other
\* goroutines have flushed one transcription before the question and added
\* another since
C36_Witness ==
  /\ Len(transcriptionBuf) > 0
  /\ \E i \in 3..Len(messages) : \E q \in 1..MaxOps :
       /\ IsAnswer(messages[i], q)
       /\ IsQuestion(messages[i - 1], q)
       /\ messages[i - 2].content[1].tag = "[TRANSCRIPTION] SSRC"

\* ================================================= splitMessage on its own
\* A message is a sequence of bytes; MaxMsgLen and MaxLimit bound the
\* message and the limit (handleAskCommand passes 2000).
MaxMsgLen == 5
MaxLimit == 3

Chars == {"a", "b", " ", "\n"}
\* the cutset of strings.TrimLeft, and the bytes the scan stops at
Blanks == {" ", "\n"}

Strings(n) == UNION {[1..k -> Chars] : k \in 0..n}

SplitInputs ==
  [message : Strings(MaxMsgLen), maxLength : 1..MaxLimit]

\* the inner loop: the scan down from index splitPos (zero-based) to a blank
\* byte, or to 0; index 0 itself is never looked at
RECURSIVE ScanBack(_, _)
ScanBack(message, splitPos) ==
  IF splitPos > 0 /\ message[splitPos + 1] \notin Blanks
  THEN ScanBack(message, splitPos - 1)
  ELSE splitPos

\* removes the first byte whatever it is
TrimFirst(message) ==
  IF message = <<>> THEN message ELSE Tail(message)

\* strings.TrimLeft(message, " \n")
RECURSIVE TrimLeft(_)
TrimLeft(message) ==
  IF message # <<>> /\ Head(message) \in Blanks
  THEN TrimLeft(Tail(message))
  ELSE message

\* the loop of splitMessage and the append of what is left after it
RECURSIVE SplitLoop(_, _, _)
SplitLoop(message, maxLength, chunks) ==
  IF Len(message) > maxLength
  THEN LET found == ScanBack(message, maxLength)
           splitPos == IF found = 0 THEN maxLength ELSE found
       IN  SplitLoop(TrimLeft(SubSeq(message, splitPos + 1, Len(message))),
                     maxLength,
                     Append(chunks, SubSeq(message, 1, splitPos)))
  ELSE IF Len(message) > 0 THEN Append(chunks, message) ELSE chunks

splitMessage(message, maxLength) ==
  IF Len(message) <= maxLength
  THEN <<message>>
  ELSE SplitLoop(message, maxLength, <<>>)

InitSplit ==
  /\ InitProc
  /\ IdleClassify
  /\ IdleRuns
  /\ IdleConv
  /\ IdleBot
  /\ sndIn = NoSend
  /\ sndOut = NotSent
  /\ IdleExceptSplit
  /\ splIn \in SplitInputs
  /\ splOut = NotSplit

SplitStep ==
  /\ ~splOut.done
  /\ splOut' = [done |-> TRUE, chunks |-> splitMessage(splIn.message, splIn.maxLength)]
  /\ UNCHANGED <<procVars, clsVars, runVars, convVars, botVars, sndVars,
                 auxExceptSplit, splIn>>

SpecSplit == InitSplit /\ [][SplitStep]_vars

\* ---------------------------------------------------------------- C37
AllBlank(s) == \A i \in 1..Len(s) : s[i] \in Blanks

\* message is the chunks in order, with a run of blanks (possibly empty)
\* left out after each chunk
RECURSIVE Rebuilds(_, _)
Rebuilds(message, chunks) ==
  IF chunks = <<>>
  THEN message = <<>>
  ELSE LET c == Head(chunks)
           n == Len(c)
       IN  /\ n <= Len(message)
           /\ SubSeq(message, 1, n) = c
           /\ \E k \in n..Len(message) :
                /\ AllBlank(SubSeq(message, n + 1, k))
                /\ Rebuilds(SubSeq(message, k + 1, Len(message)), Tail(chunks))

ChunksFit ==
  \A i \in 1..Len(splOut.chunks) : Len(splOut.chunks[i]) <= splIn.maxLength

ChunksNonEmpty ==
  \A i \in 1..Len(splOut.chunks) : Len(splOut.chunks[i]) > 0

ShortUnchanged ==
  Len(splIn.message) <= splIn.maxLength => splOut.chunks = <<splIn.message>>

\* C37 as stated: splitMessage with maxLength >= 1 returns chunks that are
\* each non-empty and at most maxLength long, that rebuild the message up to
\* the blanks removed at the split points, and a message no longer than
\* maxLength comes back as one unchanged chunk.
C37_SplitAsClaimed ==
  splOut.done =>
    /\ ChunksNonEmpty
    /\ ChunksFit
    /\ Rebuilds(splIn.message, splOut.chunks)
    /\ ShortUnchanged

\* C37: as above, with chunks non-empty only for a non-empty message: the
\* empty message comes back as one empty chunk.  The call returns after at
\* most one chunk per byte of the message.
C37_SplitChunks ==
  splOut.done =>
    /\ (splIn.message # <<>> => ChunksNonEmpty)
    /\ (splIn.message = <<>> => splOut.chunks = << <<>> >>)
    /\ ChunksFit
    /\ Rebuilds(splIn.message, splOut.chunks)
    /\ ShortUnchanged
    /\ Len(splOut.chunks) >= 1
    /\ (splIn.message # <<>> => Len(splOut.chunks) <= Len(splIn.message))

\* C37 witness: a message longer than the limit was split in two or more
\* chunks at a blank, which was removed
C37_Witness ==
  /\ splOut.done
  /\ Len(splIn.message) > splIn.maxLength
  /\ Len(splOut.chunks) >= 2
  /\ Len(splOut.chunks[1]) < splIn.maxLength
  /\ splIn.message[Len(splOut.chunks[1]) + 1] \in Blanks

\* ============================================ StreamingSession on its own
\* One session after StartStreaming: the listen goroutine, one call of
\* Close by the owner of the session, and a reader of ResultChan.  A close
\* of a closed channel and a send on a closed channel panic, which ends the
\* program.
\* make(chan *TranscriptionResult, 10)
resultChanCap == 10

\* what s.stream.Recv() gives: a response with a result that has
\* alternatives, a response without one, or io.EOF / an error
RecvOutcomes == {"result", "nothing", "end"}

streamRest == <<procVars, clsVars, runVars, convVars, botVars, sndVars,
                auxExceptStream>>

Panicked == closes > 1 \/ sentClosed

\* StartStreaming has returned the session and started `go session.listen()`
InitStream ==
  /\ InitProc
  /\ IdleClassify
  /\ IdleRuns
  /\ IdleConv
  /\ IdleBot
  /\ sndIn = NoSend
  /\ sndOut = NotSent
  /\ IdleExceptStream
  /\ resultChan = NoChan
  /\ lisPc = "make"
  /\ closeCalled = FALSE
  /\ closes = 0
  /\ sentClosed = FALSE

\* close(s.ResultChan): the buffered results stay readable
CloseChan(ch) == [ch EXCEPT !.state = "closed"]

\* listen: s.ResultChan = make(chan *TranscriptionResult, 10)
ListenMake ==
  /\ ~Panicked
  /\ lisPc = "make"
  /\ resultChan' = [state |-> "open", len |-> 0]
  /\ lisPc' = "recv"
  /\ UNCHANGED <<closeCalled, closes, sentClosed, streamRest>>

\* listen: s.stream.Recv() returns
ListenRecv ==
  /\ ~Panicked
  /\ lisPc = "recv"
  /\ \E r \in RecvOutcomes :
       lisPc' = CASE r = "result"  -> "send"
                  [] r = "nothing" -> "recv"
                  [] r = "end"     -> "exit"
  /\ UNCHANGED <<resultChan, closeCalled, closes, sentClosed, streamRest>>

\* listen: the select with the send on s.ResultChan and the default case
ListenSend ==
  /\ ~Panicked
  /\ lisPc = "send"
  /\ lisPc' = "recv"
  /\ IF resultChan.state = "closed"
     THEN /\ sentClosed' = TRUE
          /\ UNCHANGED resultChan
     ELSE /\ resultChan' = IF resultChan.len < resultChanCap
                           THEN [resultChan EXCEPT !.len = @ + 1]
                           ELSE resultChan
          /\ UNCHANGED sentClosed
  /\ UNCHANGED <<closeCalled, closes, streamRest>>

\* listen returns: the deferred close(s.ResultChan)
ListenExit ==
  /\ ~Panicked
  /\ lisPc = "exit"
  /\ lisPc' = "done"
  /\ resultChan' = CloseChan(resultChan)
  /\ closes' = closes + 1
  /\ UNCHANGED <<closeCalled, sentClosed, streamRest>>

\* StreamingSession.Close: the channel is closed unless the field is nil
StreamClose ==
  /\ ~Panicked
  /\ ~closeCalled
  /\ closeCalled' = TRUE
  /\ IF resultChan.state = "nil"
     THEN UNCHANGED <<resultChan, closes>>
     ELSE /\ resultChan' = CloseChan(resultChan)
          /\ closes' = closes + 1
  /\ UNCHANGED <<lisPc, sentClosed, streamRest>>

\* the reader of ResultChan takes one result
StreamRead ==
  /\ ~Panicked
  /\ resultChan.len > 0
  /\ resultChan' = [resultChan EXCEPT !.len = @ - 1]
  /\ UNCHANGED <<lisPc, closeCalled, closes, sentClosed, streamRest>>

NextStream ==
  \/ ListenMake
  \/ ListenRecv
  \/ ListenSend
  \/ ListenExit
  \/ StreamClose
  \/ StreamRead

SpecStream == InitStream /\ [][NextStream]_vars

\* ---------------------------------------------------------------- C38
\* the select of listen is executed while the channel holds 10 results
SendOnFull ==
  /\ lisPc = "send"
  /\ lisPc' = "recv"
  /\ resultChan.state = "open"
  /\ resultChan.len = resultChanCap

\* C38: for any interleaving of Close and listen, ResultChan is closed at
\* most once and nothing is sent on it after it was closed; with 10 results
\* in the channel, listen drops the new result and goes on to the next Recv.
C38_ChannelClosedOnce ==
  /\ [](closes <= 1 /\ ~sentClosed)
  /\ [][SendOnFull => resultChan' = resultChan]_vars

\* ---------------------------------------------------------------- C39
\* C39: in every reachable state p.oggFiles and p.oggBuffers have the same
\* keys, and every key of p.lastPacketTime is a key of both.
C39_MapsAgree ==
  /\ Keys(oggFiles) = Keys(oggBuffers)
  /\ TimeKeys(lastPacketTime) \subseteq Keys(oggFiles)

====
